---- MODULE Spec2Model ----
(***************************************************************************)
(* go-lsm: the database facade, the memtable manager with its per-table    *)
(* write-ahead logs, the SSTable manager and the two compaction engines    *)
(* found in the repository (the level-lock engine of sstable/compaction.go *)
(* and the per-level-flag engine that works on key/value pairs).           *)
(*                                                                         *)
(* Sizes are counted in records: every KeyValuePair has EstimateSize 1.    *)
(* Keys are small integers ordered as the byte strings they stand for.     *)
(* Values are opaque to the engine; every put writes a value that has not  *)
(* been written before, so that a stale read is told from a fresh one.     *)
(***************************************************************************)
EXTENDS Integers, Sequences, FiniteSets, TLC

\* ---------------------------------------------------------------- bounds
NumKeys == 2
MaxOps == 4
MaxFaults == 2
MaxCrashes == 1
MaxGets == 1
MaxWorkers == 1
NumKeysKV == 1
MaxOpsKV == 8
MaxOpsCap == 22
MaxWALRecords == 2
MaxOpsGet == 5
MaxNextTables == 2
MaxFrozen == 2
\* scaled program constants (the source values are 10, 2 MiB, 2 MiB, 2, 6)
maxIMemTableCount == 1
maxMemoryTableSize == 1
maxSSTableSize == 1
levelSizeBase == 1
maxSSTableLevel == 2
\* the Bloom filter of a table (the source values are 1600000 and 16)
defaultBloomFilterM == 4
defaultBloomFilterK == 2

\* ------------------------------------------------------- program constants
\* levelSizeBase as the source has it, for the runs on the level capacities
levelSizeBaseOfSource == 2
minSSTableLevel == 0
maxStoredLevel == 4
DeletedValue == 0
NilValue == -1

Keys == 1..NumKeys
KeysKV == 1..NumKeysKV
AllKeys == Keys \cup KeysKV
Levels == minSSTableLevel..(maxSSTableLevel + 1)

Pair(k, v) == [key |-> k, val |-> v]

IsDeleted(p) == p.val # NilValue /\ p.val = DeletedValue

EstimateSize(p) == 1

Min(a, b) == IF a < b THEN a ELSE b

RECURSIVE Pow(_, _)
Pow(b, e) == IF e = 0 THEN 1 ELSE b * Pow(b, e - 1)

\* levelSizeBase is a constant of the build; the state carries the value the
\* build under analysis was given.
VARIABLE sizeBase

\* The call of a single function under examination: its input and, once it
\* has returned, its result; op is "none" when the whole database runs.
VARIABLE unit


maxFileNumsInLevel(level) == Pow(sizeBase, level + 2)

\* ------------------------------------------------------------- skip list
\* A skip list is its mapping from the keys of its linked nodes to values.
EmptyList == [k \in {} |-> 0]

SkipListSearch(e, key) ==
    IF key \notin DOMAIN e THEN [val |-> NilValue, ok |-> FALSE]
    ELSE IF IsDeleted(Pair(key, e[key])) THEN [val |-> NilValue, ok |-> TRUE]
    ELSE [val |-> e[key], ok |-> TRUE]

SkipListAdd(e, p) ==
    [k \in (DOMAIN e) \cup {p.key} |-> IF k = p.key THEN p.val ELSE e[k]]

\* Delete marks the node and unlinks it from every level of the list.
SkipListDelete(e, key) ==
    [list |-> [k \in (DOMAIN e) \ {key} |-> e[k]], ok |-> key \in DOMAIN e]

\* Iterator: SeekToFirst / Valid / Next over the linked nodes in key order.
\* The pair type of kv.go has no Deleted flag, nothing in the list sets one:
\* the flag the iterator tests is never raised.
IterDeleted(p) == FALSE

RECURSIVE ScanFrom(_, _)
ScanFrom(e, k) ==
    IF k > NumKeys THEN <<>>
    ELSE IF k \notin DOMAIN e THEN ScanFrom(e, k + 1)
    ELSE IF IterDeleted(Pair(k, e[k])) THEN <<>>
    ELSE <<Pair(k, e[k])>> \o ScanFrom(e, k + 1)

RECURSIVE SeekToFirst(_, _)
SeekToFirst(e, k) ==
    IF k > NumKeys THEN k
    ELSE IF k \in DOMAIN e /\ ~IterDeleted(Pair(k, e[k])) THEN k
    ELSE SeekToFirst(e, k + 1)

RangeScan(e) == ScanFrom(e, SeekToFirst(e, 1))

\* ------------------------------------------------------------------- WAL
\* A WAL handle names the file by the memtable id and remembers how the
\* file was opened.  NoWAL is the nil handle.
NoWAL == [id |-> 0, ro |-> FALSE]
NewWALHandle(id) == [id |-> id, ro |-> FALSE]
RecoveredWALHandle(id) == [id |-> id, ro |-> TRUE]

\* NewWAL opens with O_CREATE|O_APPEND: an existing file keeps its content.
NewWAL(files, id) ==
    IF id \in DOMAIN files THEN files
    ELSE [i \in (DOMAIN files) \cup {id} |-> IF i = id THEN <<>> ELSE files[i]]

\* Append through a handle opened O_RDONLY fails; through a handle whose
\* file has been unlinked it succeeds and reaches no file of the directory.
AppendFails(h) == h.ro

WALAppend(files, h, p) ==
    IF h.id \in DOMAIN files
    THEN [files EXCEPT ![h.id] = Append(@, p)]
    ELSE files

WALDeleteFile(files, h) == [i \in (DOMAIN files) \ {h.id} |-> files[i]]

\* -------------------------------------------------------------- memtable
NewMemTable(id) ==
    [id |-> id, entries |-> EmptyList, wal |-> NewWALHandle(id), sizeInBytes |-> 0]

NewMemTableWithoutWAL == [id |-> 0, entries |-> EmptyList, wal |-> NoWAL, sizeInBytes |-> 0]

NewIMemTable(mem) == [id |-> mem.id, entries |-> mem.entries, wal |-> mem.wal]

MemCanInsert(mem, p) == mem.sizeInBytes + EstimateSize(p) <= maxMemoryTableSize

\* MemTable.Insert: WAL first, then the size estimate, then the list.
\* Result: the table, the WAL directory, and whether the append failed.
MemInsert(mem, files, p) ==
    IF mem.wal # NoWAL /\ AppendFails(mem.wal)
    THEN [mem |-> mem, files |-> files, err |-> TRUE]
    ELSE [mem |-> [mem EXCEPT !.sizeInBytes = @ + EstimateSize(p),
                              !.entries = SkipListAdd(@, p)],
          files |-> IF mem.wal # NoWAL THEN WALAppend(files, mem.wal, p) ELSE files,
          err |-> FALSE]

\* MemTable.Delete: only when the list held the key a record with a nil
\* value goes to the WAL.
MemDelete(mem, files, key) ==
    LET d == SkipListDelete(mem.entries, key) IN
    IF ~d.ok THEN [mem |-> mem, files |-> files, err |-> FALSE]
    ELSE IF mem.wal # NoWAL /\ AppendFails(mem.wal)
    THEN [mem |-> [mem EXCEPT !.entries = d.list], files |-> files, err |-> TRUE]
    ELSE [mem |-> [mem EXCEPT !.entries = d.list],
          files |-> IF mem.wal # NoWAL
                    THEN WALAppend(files, mem.wal, Pair(key, NilValue))
                    ELSE files,
          err |-> FALSE]

\* ------------------------------------------------------ memtable manager
NoIMem == [id |-> 0, entries |-> EmptyList, wal |-> NoWAL]

promoteLockedNoEvict(mem, imems, files, idgen) ==
    [evicted |-> NoIMem,
     imems |-> Append(imems, NewIMemTable(mem)),
     mem |-> NewMemTable(idgen + 1),
     files |-> NewWAL(files, idgen + 1),
     idgen |-> idgen + 1]

\* promoteLocked: evict the head when the queue is full, freeze the active
\* table, open a new active table under the next id of util.IDGen.
promoteLocked(mem, imems, files, idgen) ==
    LET full == Len(imems) >= maxIMemTableCount
        kept == IF full THEN Tail(imems) ELSE imems
    IN [evicted |-> IF full THEN Head(imems) ELSE NoIMem,
        imems |-> Append(kept, NewIMemTable(mem)),
        mem |-> NewMemTable(idgen + 1),
        files |-> NewWAL(files, idgen + 1),
        idgen |-> idgen + 1]

\* The part Manager.Insert and Manager.Delete share: insert into the active
\* table when it has room, else promote and insert into the new table.
InsertOrPromote(mem, imems, files, idgen, p) ==
    IF MemCanInsert(mem, p)
    THEN LET r == MemInsert(mem, files, p) IN
         [mem |-> r.mem, imems |-> imems, files |-> r.files, idgen |-> idgen,
          evicted |-> NoIMem, err |-> r.err]
    ELSE LET pr == promoteLocked(mem, imems, files, idgen)
             r == MemInsert(pr.mem, pr.files, p)
         IN [mem |-> r.mem, imems |-> pr.imems, files |-> r.files, idgen |-> pr.idgen,
             evicted |-> IF r.err THEN NoIMem ELSE pr.evicted, err |-> r.err]

ManagerInsert(mem, imems, files, idgen, p) == InsertOrPromote(mem, imems, files, idgen, p)

ManagerDeleteNoInsert(mem, imems, files, idgen, key) ==
    LET d == MemDelete(mem, files, key) IN
    [mem |-> d.mem, imems |-> imems, files |-> d.files, idgen |-> idgen,
     evicted |-> NoIMem, err |-> d.err]

ManagerDelete(mem, imems, files, idgen, key) ==
    LET d == MemDelete(mem, files, key) IN
    IF d.err
    THEN [mem |-> d.mem, imems |-> imems, files |-> d.files, idgen |-> idgen,
          evicted |-> NoIMem, err |-> TRUE]
    ELSE InsertOrPromote(d.mem, imems, d.files, idgen, Pair(key, DeletedValue))

\* Manager.Search: the active table, then the frozen ones from the newest.
RECURSIVE SearchIMems(_, _, _)
SearchIMems(imems, i, key) ==
    IF i < 1 THEN NilValue
    ELSE LET r == SkipListSearch(imems[i].entries, key) IN
         IF r.ok THEN r.val ELSE SearchIMems(imems, i - 1, key)

ManagerSearchOldestFirst(mem, imems, key) ==
    LET r == SkipListSearch(mem.entries, key)
        rev == [i \in 1..Len(imems) |-> imems[Len(imems) + 1 - i]]
    IN IF r.ok THEN r.val ELSE SearchIMems(rev, Len(rev), key)

ManagerSearch(mem, imems, key) ==
    LET r == SkipListSearch(mem.entries, key) IN
    IF r.ok THEN r.val ELSE SearchIMems(imems, Len(imems), key)

\* ---------------------------------------------------------------- SSTable
\* An SSTable file is named by its level directory and its id; its content
\* is the sequence of its records in index order.
Path(level, id) == <<level, id>>
PathLevel(path) == path[1]

\* util.ExtractID scans a leading decimal number.  getSortedFilesByLevel
\* hands it the full path, which begins with the directory: nothing is
\* scanned and the id is 0.
ExtractID(path) == 0

MinKeyOf(recs) == IF Len(recs) = 0 THEN 0 ELSE recs[1].key
MaxKeyOf(recs) == IF Len(recs) = 0 THEN 0 ELSE recs[Len(recs)].key

\* MayContain: the header range, then the filter (no false negatives).
MayContain(recs, key) ==
    /\ ~(MinKeyOf(recs) > key \/ MaxKeyOf(recs) < key)
    /\ \E i \in 1..Len(recs) : recs[i].key = key

\* SearchFromTable: seek to the first record with a key >= key.
RECURSIVE SeekIndex(_, _, _)
SeekIndex(recs, i, key) ==
    IF i > Len(recs) THEN i
    ELSE IF recs[i].key >= key THEN i
    ELSE SeekIndex(recs, i + 1, key)

SearchFromTable(recs, key) ==
    IF ~MayContain(recs, key) THEN NilValue
    ELSE LET i == SeekIndex(recs, 1, key) IN
         IF i <= Len(recs) /\ recs[i].key = key THEN recs[i].val ELSE NilValue

\* BuildSSTableFromIMemtable: one record per node the range scan visits.
BuildSSTableFromIMemtable(imem) == RangeScan(imem.entries)

\* ------------------------------------------------------ container/heap
\* The heap is a sequence; position i of the Go slice is element i + 1.
HeapLess(h, i, j) == h[i + 1].key < h[j + 1].key

HeapSwap(h, i, j) == [h EXCEPT ![i + 1] = h[j + 1], ![j + 1] = h[i + 1]]

RECURSIVE HeapUp(_, _)
HeapUp(h, j) ==
    LET i == (j - 1) \div 2 IN
    IF j = 0 \/ i = j \/ ~HeapLess(h, j, i) THEN h
    ELSE HeapUp(HeapSwap(h, i, j), i)

RECURSIVE HeapDown(_, _, _)
HeapDown(h, i, n) ==
    LET j1 == 2 * i + 1
        j2 == j1 + 1
        j == IF j2 < n /\ HeapLess(h, j2, j1) THEN j2 ELSE j1
    IN IF j1 >= n THEN h
       ELSE IF ~HeapLess(h, j, i) THEN h
       ELSE HeapDown(HeapSwap(h, i, j), j, n)

HeapPush(h, x) == HeapUp(Append(h, x), Len(h))

\* heap.Pop: swap the root with the last element, sift down, cut the last.
HeapPop(h) ==
    LET n == Len(h) - 1
        d == HeapDown(HeapSwap(h, 0, n), 0, n)
    IN [item |-> d[n + 1], heap |-> SubSeq(d, 1, n)]

RECURSIVE HeapPushAll(_, _, _)
HeapPushAll(h, xs, i) ==
    IF i > Len(xs) THEN h ELSE HeapPushAll(HeapPush(h, xs[i]), xs, i + 1)

\* ------------------------------------------------------------------ merge
\* CompactAndMergeKVs (merge.go).  The state of the loop: the heap, the
\* records of the builder, the finished tables, the last written key (0 for
\* the empty string).  Every builder takes a table id when it is created.
RECURSIVE MergeKVsLoop(_, _, _, _, _)
MergeKVsLoop(h, cur, results, last, level) ==
    IF Len(h) = 0
    THEN IF Len(cur) > 0 THEN Append(results, cur) ELSE results
    ELSE LET p == HeapPop(h) IN
         IF last # 0 /\ h[1].key = last
         THEN MergeKVsLoop(p.heap, cur, results, last, level)
         ELSE LET write == ~IsDeleted(p.item) \/ level < maxSSTableLevel
                  cur2 == IF write THEN Append(cur, p.item) ELSE cur
                  last2 == IF write THEN p.item.key ELSE last
              IN IF Len(cur2) >= maxSSTableSize
                 THEN MergeKVsLoop(p.heap, <<>>, Append(results, cur2), 0, level)
                 ELSE MergeKVsLoop(p.heap, cur2, results, last2, level)

CompactAndMergeKVs(kvs, level) == MergeKVsLoop(HeapPushAll(<<>>, kvs, 1), <<>>, <<>>, 0, level)

\* the number of builders CompactAndMergeKVs creates: the first one and one
\* after every flush
RECURSIVE SumLen(_, _)
SumLen(tables, i) == IF i > Len(tables) THEN 0 ELSE Len(tables[i]) + SumLen(tables, i + 1)

BuildersUsed(tables) ==
    IF Len(tables) = 0 THEN 1
    ELSE IF Len(tables[Len(tables)]) >= maxSSTableSize THEN Len(tables) + 1
    ELSE Len(tables)

\* CompactAndMergeBlocks (compaction.go's merge): a heap of block cursors.
\* A cursor is [blk, pos]; its key is the key of its current record.
CursorRec(c) == c.blk[c.pos]
BlockHeapOf(h) == [i \in 1..Len(h) |-> CursorRec(h[i])]

RECURSIVE BHeapUp(_, _)
BHeapUp(h, j) ==
    LET i == (j - 1) \div 2 IN
    IF j = 0 \/ i = j \/ ~HeapLess(BlockHeapOf(h), j, i) THEN h
    ELSE BHeapUp(HeapSwap(h, i, j), i)

RECURSIVE BHeapDown(_, _, _)
BHeapDown(h, i, n) ==
    LET j1 == 2 * i + 1
        j2 == j1 + 1
        k == BlockHeapOf(h)
        j == IF j2 < n /\ HeapLess(k, j2, j1) THEN j2 ELSE j1
    IN IF j1 >= n THEN h
       ELSE IF ~HeapLess(k, j, i) THEN h
       ELSE BHeapDown(HeapSwap(h, i, j), j, n)

BHeapPush(h, c) == BHeapUp(Append(h, c), Len(h))

BHeapPop(h) ==
    LET n == Len(h) - 1
        d == BHeapDown(HeapSwap(h, 0, n), 0, n)
    IN [item |-> d[n + 1], heap |-> SubSeq(d, 1, n)]

RECURSIVE BHeapPushAll(_, _, _)
BHeapPushAll(h, blocks, i) ==
    IF i > Len(blocks) THEN h
    ELSE IF Len(blocks[i]) = 0 THEN BHeapPushAll(h, blocks, i + 1)
    ELSE BHeapPushAll(BHeapPush(h, [blk |-> blocks[i], pos |-> 1]), blocks, i + 1)

RECURSIVE MergeBlocksLoop(_, _, _)
MergeBlocksLoop(h, cur, results) ==
    IF Len(h) = 0
    THEN IF Len(cur) > 0 THEN Append(results, cur) ELSE results
    ELSE LET p == BHeapPop(h)
             rec == CursorRec(p.item)
             cur2 == IF ~IterDeleted(rec) THEN Append(cur, rec) ELSE cur
             h2 == IF p.item.pos < Len(p.item.blk)
                   THEN BHeapPush(p.heap, [p.item EXCEPT !.pos = @ + 1])
                   ELSE p.heap
         IN IF Len(cur2) >= maxSSTableSize
            THEN MergeBlocksLoop(h2, <<>>, Append(results, cur2))
            ELSE MergeBlocksLoop(h2, cur2, results)

CompactAndMergeBlocks(blocks, level) == MergeBlocksLoop(BHeapPushAll(<<>>, blocks, 1), <<>>, <<>>)

\* ------------------------------------------------------------ the state
VARIABLES
    Mem,              \* memtable.Manager.Mem
    IMems,            \* memtable.Manager.IMems, oldest first
    memIdGenerator,   \* memtable.idGenerator
    IDGen,            \* util.IDGen
    walFiles,         \* the WAL directory: memtable id -> records of the file
    sstFiles,         \* the SSTable directories: path -> records of the file
    partialFiles,     \* paths of files an interrupted EncodeTo left behind
    sstIdGenerator,   \* sstable.idGenerator
    totalMap,         \* sstable.Manager.totalMap: level -> FileInfo sequence
    metaInfos,        \* sstable.Manager.metaInfos: the cached paths
    compacting,       \* sstable.Manager.compacting
    compactingLevel,  \* sstable.Manager.compactingLevel
    levelLocks,       \* sstable.Manager.levelLocks: level -> holder or Free
    compactingLevels, \* the per-level flags of the key/value-pair engine
    wr,               \* the writer: the put or delete in progress
    cx,               \* thread -> position and locals inside the compaction
    rd,               \* the reader: the get in progress
    acked,            \* key -> value of the last acknowledged put or delete
    recovered,        \* outcome of the last Recover: "none", "ok", "failed"
    nOps, nFaults, nCrashes, nGets

memv == <<Mem, IMems, memIdGenerator, IDGen, walFiles>>
diskv == <<sstFiles, partialFiles>>
mgrv == <<sstIdGenerator, totalMap, metaInfos>>
flagv == <<compacting, compactingLevel, levelLocks, compactingLevels>>
cntv == <<nOps, nFaults, nCrashes, nGets, sizeBase, unit>>
vars == <<memv, diskv, mgrv, flagv, wr, cx, rd, acked, recovered, cntv>>

Writer == 0
Workers == 1..MaxWorkers
Threads == {Writer} \cup Workers
Free == -1

IdleCx == [pc |-> "idle", base |-> 0, lvl |-> 0, files |-> <<>>, oldNext |-> <<>>,
           blocks |-> <<>>, tables |-> <<>>, err |-> FALSE]
IdleWr == [pc |-> "idle", key |-> 0, val |-> NilValue, imem |-> NoIMem]
IdleRd == [pc |-> "idle", key |-> 0, level |-> 0, files |-> <<>>, result |-> NilValue,
           err |-> FALSE, blocked |-> FALSE, woken |-> FALSE, overlap |-> FALSE,
           conc |-> FALSE, expect |-> NilValue]

\* Open: NewMemtableManager and NewSSTableManager on an empty directory.
Open ==
    /\ Mem = NewMemTable(1)
    /\ IMems = <<>>
    /\ memIdGenerator = 1
    /\ IDGen = 0
    /\ walFiles = NewWAL([i \in {} |-> <<>>], 1)
    /\ sstFiles = [f \in {} |-> <<>>]
    /\ partialFiles = {}
    /\ sstIdGenerator = 0
    /\ totalMap = [l \in Levels |-> <<>>]
    /\ metaInfos = {}
    /\ compacting = FALSE
    /\ compactingLevel = -1
    /\ levelLocks = [l \in Levels |-> Free]
    /\ compactingLevels = {}
    /\ wr = IdleWr
    /\ cx = [t \in Threads |-> IdleCx]
    /\ rd = IdleRd
    /\ acked = [k \in AllKeys |-> NilValue]
    /\ recovered = "none"
    /\ nOps = 0 /\ nFaults = 0 /\ nCrashes = 0 /\ nGets = 0

Init == Open /\ sizeBase = levelSizeBase /\ unit = [op |-> "none"]

\* ------------------------------------------------------- sstable manager
FileInfo(path, recs) == [filePath |-> path, minKey |-> MinKeyOf(recs)]

PathsOf(infos) == [i \in 1..Len(infos) |-> infos[i].filePath]

SeqToSet(sq) == {sq[i] : i \in 1..Len(sq)}

RECURSIVE FilterOut(_, _)
FilterOut(infos, path) ==
    IF Len(infos) = 0 THEN <<>>
    ELSE IF Head(infos).filePath = path THEN FilterOut(Tail(infos), path)
    ELSE <<Head(infos)>> \o FilterOut(Tail(infos), path)

\* addTable: append the FileInfo to the level, cache the meta data of the
\* levels up to maxStoredLevel.
addTableMap(tm, path, recs) ==
    [tm EXCEPT ![PathLevel(path)] = Append(@, FileInfo(path, recs))]

addTableMeta(mi, path) ==
    IF PathLevel(path) <= maxStoredLevel THEN mi \cup {path} ELSE mi

\* removeOldSSTables: drop the meta data, the FileInfo and the file of each
\* path, one after the other under the manager mutex.
RECURSIVE removeFromMap(_, _, _, _)
removeFromMap(tm, paths, i, level) ==
    IF i > Len(paths) THEN tm
    ELSE removeFromMap([tm EXCEPT ![level] = FilterOut(@, paths[i])], paths, i + 1, level)

removeFilesNone(files, paths) == files

removeFiles(files, paths) ==
    [f \in (DOMAIN files) \ SeqToSet(paths) |-> files[f]]

getFilesByLevel(tm, level) == PathsOf(tm[level])

isLevelNeedToBeMerged(tm, level) == Len(tm[level]) > maxFileNumsInLevel(level)

\* getSortedFilesByLevel: the paths of the level, sorted by ExtractID with
\* the insertion sort sort.Slice uses for short slices.
RECURSIVE InsertByID(_, _)
InsertByID(sorted, x) ==
    IF Len(sorted) = 0 THEN <<x>>
    ELSE IF ExtractID(x) < ExtractID(sorted[Len(sorted)])
         THEN Append(InsertByID(SubSeq(sorted, 1, Len(sorted) - 1), x), sorted[Len(sorted)])
         ELSE Append(sorted, x)

RECURSIVE SortByID(_, _)
SortByID(paths, i) ==
    IF i = 0 THEN <<>> ELSE InsertByID(SortByID(paths, i - 1), paths[i])

getSortedFilesByLevel(tm, level) ==
    LET files == getFilesByLevel(tm, level) IN SortByID(files, Len(files))

\* Manager.Search over one level's file list: the first value that is not
\* nil wins; a file that is gone from the disk is an error.
RECURSIVE SearchFiles(_, _, _, _)
SearchFiles(disk, files, i, key) ==
    IF i > Len(files) THEN [val |-> NilValue, err |-> FALSE]
    ELSE IF files[i] \notin DOMAIN disk THEN [val |-> NilValue, err |-> TRUE]
    ELSE LET v == SearchFromTable(disk[files[i]], key) IN
         IF v # NilValue THEN [val |-> v, err |-> FALSE]
         ELSE SearchFiles(disk, files, i + 1, key)

RECURSIVE SearchLevels(_, _, _, _)
SearchLevels(tm, disk, level, key) ==
    IF level > maxSSTableLevel THEN [val |-> NilValue, err |-> FALSE]
    ELSE LET r == SearchFiles(disk, getSortedFilesByLevel(tm, level), 1, key) IN
         IF r.err \/ r.val # NilValue THEN r
         ELSE SearchLevels(tm, disk, level + 1, key)

\* Database.Get when nothing else runs: the memtables, and the SSTables when
\* the memtables answer nil.
DatabaseGet(key) ==
    LET v == ManagerSearch(Mem, IMems, key) IN
    IF v # NilValue THEN [val |-> v, err |-> FALSE]
    ELSE SearchLevels(totalMap, sstFiles, minSSTableLevel, key)

\* ------------------------------------------------- selection of the inputs
\* partition and quickSelect work in place on the slice of the level, which
\* is the slice totalMap holds.  Indices are the 0-based ones of the code.
RECURSIVE PartitionLoop(_, _, _, _)
PartitionLoop(arr, i, j, right) ==
    IF j >= right
    THEN [arr |-> HeapSwap(arr, i, right), idx |-> i]
    ELSE IF arr[j + 1].minKey < arr[right + 1].minKey
         THEN PartitionLoop(HeapSwap(arr, i, j), i + 1, j + 1, right)
         ELSE PartitionLoop(arr, i, j + 1, right)

partition(arr, left, right) == PartitionLoop(arr, left, left, right)

RECURSIVE quickSelect(_, _, _, _)
quickSelect(arr, left, right, k) ==
    IF left >= right THEN arr
    ELSE LET p == partition(arr, left, right) IN
         IF p.idx = k THEN p.arr
         ELSE IF p.idx > k THEN quickSelect(p.arr, left, p.idx - 1, k)
         ELSE quickSelect(p.arr, p.idx + 1, right, k)

RECURSIVE InsertByMinKey(_, _)
InsertByMinKey(sorted, x) ==
    IF Len(sorted) = 0 THEN <<x>>
    ELSE IF x.minKey < sorted[Len(sorted)].minKey
         THEN Append(InsertByMinKey(SubSeq(sorted, 1, Len(sorted) - 1), x), sorted[Len(sorted)])
         ELSE Append(sorted, x)

RECURSIVE SortByMinKey(_, _)
SortByMinKey(infos, i) ==
    IF i = 0 THEN <<>> ELSE InsertByMinKey(SortByMinKey(infos, i - 1), infos[i])

\* getLevelSmallestKFilesByKey: the k files of the smallest minKey, and the
\* order it leaves the level's slice in.
getLevelSmallestKFilesByKey(infos, k) ==
    LET n == Len(infos) IN
    IF k >= n
    THEN LET sorted == SortByMinKey(infos, n) IN
         [files |-> PathsOf(sorted), infos |-> sorted]
    ELSE LET sel == quickSelect(infos, 0, n - 1, k)
             front == SortByMinKey(SubSeq(sel, 1, k), k)
         IN [files |-> PathsOf(front), infos |-> front \o SubSeq(sel, k + 1, n)]

\* --------------------------------------- loading the inputs, block engine
\* getSSTableMetaInfo followed by DecodeDataBlocks for every path: the
\* records of each file as one block; a file that is gone is an error.
RECURSIVE LoadBlocks(_, _, _)
LoadBlocks(disk, paths, i) ==
    IF i > Len(paths) THEN [blocks |-> <<>>, err |-> FALSE]
    ELSE IF paths[i] \notin DOMAIN disk THEN [blocks |-> <<>>, err |-> TRUE]
    ELSE LET r == LoadBlocks(disk, paths, i + 1) IN
         [blocks |-> <<disk[paths[i]]>> \o r.blocks, err |-> r.err]

RECURSIVE getGlobalKeyRangeLoop(_, _, _, _)
getGlobalKeyRangeLoop(blocks, i, lo, hi) ==
    IF i > Len(blocks) THEN [minK |-> lo, maxK |-> hi]
    ELSE IF Len(blocks[i]) = 0 THEN getGlobalKeyRangeLoop(blocks, i + 1, lo, hi)
    ELSE getGlobalKeyRangeLoop(blocks, i + 1,
             IF MinKeyOf(blocks[i]) < lo THEN MinKeyOf(blocks[i]) ELSE lo,
             IF MaxKeyOf(blocks[i]) > hi THEN MaxKeyOf(blocks[i]) ELSE hi)

getGlobalKeyRange(blocks) ==
    IF Len(blocks) = 0 THEN [minK |-> 0, maxK |-> 0]
    ELSE getGlobalKeyRangeLoop(blocks, 1, MinKeyOf(blocks[1]), MaxKeyOf(blocks[1]))

\* overlapRange of the block engine: the index range of the table meets
\* [minKey, maxKey].
overlapRangeIndex(minKey, maxKey, recs) ==
    IF Len(recs) = 0 THEN FALSE
    ELSE ~(MaxKeyOf(recs) < minKey \/ MinKeyOf(recs) > maxKey)

\* mergeNextLevelFiles of the block engine, under the lock of the level.
RECURSIVE mergeNextLevelBlocks(_, _, _, _, _)
mergeNextLevelBlocks(disk, paths, i, minK, maxK) ==
    IF i > Len(paths) THEN [blocks |-> <<>>, files |-> <<>>, err |-> FALSE]
    ELSE IF paths[i] \notin DOMAIN disk THEN [blocks |-> <<>>, files |-> <<>>, err |-> TRUE]
    ELSE LET r == mergeNextLevelBlocks(disk, paths, i + 1, minK, maxK) IN
         IF overlapRangeIndex(minK, maxK, disk[paths[i]])
         THEN [blocks |-> <<disk[paths[i]]>> \o r.blocks,
               files |-> <<paths[i]>> \o r.files, err |-> r.err]
         ELSE r

\* --------------------------------------- loading the inputs, pair engine
\* getSSTableByPath: the table the manager holds in memory for the path.
getSSTableByPath(mi, path) == path \in mi

RECURSIVE Flatten(_, _)
Flatten(blocks, i) == IF i > Len(blocks) THEN <<>> ELSE blocks[i] \o Flatten(blocks, i + 1)

\* loadLevelData: a path without a table in memory is skipped, a file that
\* cannot be read is an error.
RECURSIVE loadLevelData(_, _, _, _)
loadLevelData(mi, disk, paths, i) ==
    IF i > Len(paths) THEN [pairs |-> <<>>, err |-> FALSE]
    ELSE IF ~getSSTableByPath(mi, paths[i]) THEN loadLevelData(mi, disk, paths, i + 1)
    ELSE IF paths[i] \notin DOMAIN disk THEN [pairs |-> <<>>, err |-> TRUE]
    ELSE LET r == loadLevelData(mi, disk, paths, i + 1) IN
         [pairs |-> disk[paths[i]] \o r.pairs, err |-> r.err]

RECURSIVE getGlobalKeyRangeFromPairsLoop(_, _, _, _)
getGlobalKeyRangeFromPairsLoop(pairs, i, lo, hi) ==
    IF i > Len(pairs) THEN [minK |-> lo, maxK |-> hi]
    ELSE getGlobalKeyRangeFromPairsLoop(pairs, i + 1,
             IF pairs[i].key < lo THEN pairs[i].key ELSE lo,
             IF pairs[i].key > hi THEN pairs[i].key ELSE hi)

getGlobalKeyRangeFromPairs(pairs) ==
    IF Len(pairs) = 0 THEN [minK |-> 0, maxK |-> 0]
    ELSE getGlobalKeyRangeFromPairsLoop(pairs, 1, pairs[1].key, pairs[1].key)

\* overlapRange of the pair engine: the header range of the table lies
\* inside [minKey, maxKey].
overlapRange(minKey, maxKey, recs) ==
    ~(MinKeyOf(recs) < minKey \/ MaxKeyOf(recs) > maxKey)

RECURSIVE mergeNextLevelFiles(_, _, _, _, _, _)
mergeNextLevelFiles(mi, disk, paths, i, minK, maxK) ==
    IF i > Len(paths) THEN [pairs |-> <<>>, files |-> <<>>, err |-> FALSE]
    ELSE IF ~getSSTableByPath(mi, paths[i])
         THEN mergeNextLevelFiles(mi, disk, paths, i + 1, minK, maxK)
    ELSE IF paths[i] \notin DOMAIN disk
         THEN [pairs |-> <<>>, files |-> <<>>, err |-> TRUE]
    ELSE LET r == mergeNextLevelFiles(mi, disk, paths, i + 1, minK, maxK) IN
         IF overlapRange(minK, maxK, disk[paths[i]])
         THEN [pairs |-> disk[paths[i]] \o r.pairs,
               files |-> <<paths[i]>> \o r.files, err |-> r.err]
         ELSE r

\* The new tables of a merge, each under the path of the id its builder
\* took from the generator.
NameTables(tables, level, idgen) ==
    [i \in 1..Len(tables) |-> [path |-> Path(level, idgen + i), recs |-> tables[i]]]

RECURSIVE addNewToMap(_, _, _)
addNewToMap(tm, tables, i) ==
    IF i > Len(tables) THEN tm
    ELSE addNewToMap(addTableMap(tm, tables[i].path, tables[i].recs), tables, i + 1)

addNewToDisk(disk, tables) ==
    LET new == {tables[i].path : i \in 1..Len(tables)} IN
    [f \in (DOMAIN disk) \cup new |->
        IF f \in new
        THEN (CHOOSE t \in SeqToSet(tables) : t.path = f).recs
        ELSE disk[f]]

addNewToMeta(mi, tables) ==
    mi \cup {t.path : t \in {x \in SeqToSet(tables) : PathLevel(x.path) <= maxStoredLevel}}

\* ------------------------------------------------------------ the writer
\* What get(k) is to return once the write is acknowledged.
Expected(k) == IF acked[k] = DeletedValue THEN NilValue ELSE acked[k]

Usable == recovered # "failed" /\ wr.pc = "idle" /\ nOps < MaxOps

\* The part Database.Put and Database.Delete share after the memtable
\* manager returned r: a failed WAL append fails the call; an evicted frozen
\* table goes to createNewSSTable; else the call returns.
AfterManager(r, k, v) ==
    /\ Mem' = r.mem
    /\ IMems' = r.imems
    /\ walFiles' = r.files
    /\ IDGen' = r.idgen
    /\ nOps' = nOps + 1
    /\ rd' = IF rd.pc # "idle" /\ rd.key = k THEN [rd EXCEPT !.overlap = TRUE] ELSE rd
    /\ IF r.err
       THEN wr' = IdleWr /\ acked' = acked
       ELSE IF r.evicted = NoIMem
       THEN wr' = IdleWr /\ acked' = [acked EXCEPT ![k] = v]
       ELSE wr' = [pc |-> "flush", key |-> k, val |-> v, imem |-> r.evicted] /\ acked' = acked
    /\ UNCHANGED <<memIdGenerator, diskv, mgrv, flagv, cx, recovered, nFaults, nCrashes, sizeBase, unit, nGets>>

\* Database.Put(key, value); the value is a fresh stamp.
Put(k) ==
    /\ Usable
    /\ AfterManager(ManagerInsert(Mem, IMems, walFiles, IDGen, Pair(k, nOps + 1)), k, nOps + 1)

\* Database.Put(key, value) when WAL.Append of the insert returns an error:
\* Manager.Insert has promoted if the table was full, MemTable.Insert
\* returns before it touches the table, Manager.Insert returns nil and the
\* error, Put returns the error.
PutAppendFails(k) ==
    /\ Usable
    /\ nFaults < MaxFaults
    /\ LET p == Pair(k, nOps + 1)
           pr == promoteLocked(Mem, IMems, walFiles, IDGen)
       IN IF MemCanInsert(Mem, p)
          THEN UNCHANGED <<Mem, IMems, walFiles, IDGen>>
          ELSE /\ Mem' = pr.mem
               /\ IMems' = pr.imems
               /\ walFiles' = pr.files
               /\ IDGen' = pr.idgen
    /\ nOps' = nOps + 1
    /\ nFaults' = nFaults + 1
    /\ wr' = IdleWr
    /\ UNCHANGED <<memIdGenerator, diskv, mgrv, flagv, cx, rd, acked, recovered,
                   nCrashes, sizeBase, unit, nGets>>

\* Database.Delete(key)
Delete(k) ==
    /\ Usable
    /\ AfterManager(ManagerDelete(Mem, IMems, walFiles, IDGen, k), k, DeletedValue)

\* The return of createNewSSTable into Put or Delete: the deferred Clean of
\* the frozen table, then the call returns nil whatever happened.
Return(files) ==
    /\ walFiles' = WALDeleteFile(files, wr.imem.wal)
    /\ acked' = [acked EXCEPT ![wr.key] = wr.val]
    /\ wr' = IdleWr

\* Manager.CreateNewSSTable up to the call of Compaction: build the table,
\* write the file, register it.  fail is the outcome of EncodeTo.
CreateNewSSTable(fail) ==
    /\ wr.pc = "flush"
    /\ LET recs == BuildSSTableFromIMemtable(wr.imem)
           path == Path(minSSTableLevel, sstIdGenerator + 1)
           tm == addTableMap(totalMap, path, recs)
       IN /\ sstIdGenerator' = sstIdGenerator + 1
          /\ IF fail
             THEN /\ nFaults < MaxFaults
                  /\ nFaults' = nFaults + 1
                  /\ partialFiles' = partialFiles \cup {path}
                  /\ Return(walFiles)
                  /\ UNCHANGED <<sstFiles, totalMap, metaInfos, cx>>
             ELSE /\ sstFiles' = addNewToDisk(sstFiles, <<[path |-> path, recs |-> recs]>>)
                  /\ totalMap' = tm
                  /\ metaInfos' = addTableMeta(metaInfos, path)
                  /\ UNCHANGED <<partialFiles, nFaults>>
                  /\ IF isLevelNeedToBeMerged(tm, minSSTableLevel)
                     THEN /\ wr' = [wr EXCEPT !.pc = "compact"]
                          /\ cx' = [cx EXCEPT ![Writer] = [IdleCx EXCEPT !.pc = "begin"]]
                          /\ UNCHANGED <<walFiles, acked>>
                     ELSE Return(walFiles) /\ cx' = cx
    /\ UNCHANGED <<Mem, IMems, memIdGenerator, IDGen, flagv, rd, recovered,
                   nOps, nCrashes, sizeBase, unit, nGets>>

\* Compaction returned to CreateNewSSTable.
CompactionReturns ==
    /\ wr.pc = "compact"
    /\ cx[Writer].pc = "done"
    /\ Return(walFiles)
    /\ cx' = [cx EXCEPT ![Writer] = IdleCx]
    /\ UNCHANGED <<Mem, IMems, memIdGenerator, IDGen, diskv, mgrv, flagv, rd, recovered, cntv>>

\* ------------------------------------------------------------ the reader
\* Some thread is inside a compaction.
Compacting == \E t \in Threads : cx[t].pc \notin {"idle", "done"}

\* Database.Get(key), first half: the memtables.
GetMem(k) ==
    /\ rd.pc = "idle"
    /\ recovered # "failed"
    /\ wr.pc # "recover"
    /\ nGets < MaxGets
    /\ LET v == ManagerSearch(Mem, IMems, k)
           r == [IdleRd EXCEPT !.key = k, !.expect = Expected(k), !.conc = Compacting,
                               !.overlap = wr.pc # "idle" /\ wr.key = k]
       IN rd' = IF v # NilValue
                THEN [r EXCEPT !.pc = "done", !.result = v]
                ELSE [r EXCEPT !.pc = "wait"]
    /\ nGets' = nGets + 1
    /\ UNCHANGED <<memv, diskv, mgrv, flagv, wr, cx, acked, recovered, nOps, nFaults, nCrashes, sizeBase, unit>>

\* Manager.Search finds the level it is about to read under compaction and
\* goes to sleep on the condition variable.
SearchBlocksAnyLevel ==
    /\ rd.pc = "wait"
    /\ ~rd.blocked
    /\ compacting
    /\ rd' = [rd EXCEPT !.blocked = TRUE]
    /\ UNCHANGED <<memv, diskv, mgrv, flagv, wr, cx, acked, recovered, cntv>>

SearchBlocks ==
    /\ rd.pc = "wait"
    /\ ~rd.blocked
    /\ rd.level >= 1
    /\ compacting /\ compactingLevel <= rd.level
    /\ rd' = [rd EXCEPT !.blocked = TRUE]
    /\ UNCHANGED <<memv, diskv, mgrv, flagv, wr, cx, acked, recovered, cntv>>

\* Manager.Search, awake, finds the wait condition of the level false and
\* takes the file list of the level.
SearchList ==
    /\ rd.pc = "wait"
    /\ ~rd.blocked
    /\ rd.level >= 1 => ~(compacting /\ compactingLevel <= rd.level)
    /\ rd' = [rd EXCEPT !.pc = "scan", !.conc = @ \/ Compacting,
                        !.files = getSortedFilesByLevel(totalMap, rd.level)]
    /\ UNCHANGED <<memv, diskv, mgrv, flagv, wr, cx, acked, recovered, cntv>>

\* Manager.Search reads the files of the list.
SearchScan ==
    /\ rd.pc = "scan"
    /\ LET r == SearchFiles(sstFiles, rd.files, 1, rd.key)
           c == [rd EXCEPT !.conc = @ \/ Compacting]
       IN rd' = IF r.err THEN [c EXCEPT !.pc = "done", !.err = TRUE]
                ELSE IF r.val # NilValue THEN [c EXCEPT !.pc = "done", !.result = r.val]
                ELSE IF rd.level >= maxSSTableLevel THEN [c EXCEPT !.pc = "done"]
                ELSE [c EXCEPT !.pc = "wait", !.level = @ + 1, !.files = <<>>]
    /\ UNCHANGED <<memv, diskv, mgrv, flagv, wr, cx, acked, recovered, cntv>>

\* Database.Get returns to the caller.
GetReturns ==
    /\ rd.pc = "done"
    /\ rd' = IdleRd
    /\ UNCHANGED <<memv, diskv, mgrv, flagv, wr, cx, acked, recovered, cntv>>

\* --------------------------------------------------- the block engine
\* (sstable/compaction.go) Thread 0 runs Compaction inside the write, thread
\* 1 runs asyncCompactLevel.
Release(locks, t) == [l \in Levels |-> IF locks[l] = t THEN Free ELSE locks[l]]

\* The return of compactLevel, through every frame of the recursion, into
\* the loop of asyncCompactLevel: the deferred unlocks run.
Unwind(t, failed) ==
    /\ levelLocks' = Release(levelLocks, t)
    /\ cx' = [cx EXCEPT ![t] = [IdleCx EXCEPT !.pc = "loop", !.base = cx[t].base,
                                              !.lvl = cx[t].base, !.err = failed]]

\* The return of Compaction into CreateNewSSTable.
Finish(t, failed) ==
    /\ levelLocks' = Release(levelLocks, t)
    /\ cx' = [cx EXCEPT ![t] = [@ EXCEPT !.pc = "done", !.err = failed]]

Leave(t, failed) == IF t = Writer THEN Finish(t, failed) ELSE Unwind(t, failed)

\* Compaction: take the lock of level 0, test the level, load its files.
\* fail is the outcome of reading the files.
Compaction(fail) ==
    /\ cx[Writer].pc = "begin"
    /\ levelLocks[minSSTableLevel] = Free
    /\ LET files == getFilesByLevel(totalMap, minSSTableLevel)
           ld == LoadBlocks(sstFiles, files, 1)
       IN IF ~isLevelNeedToBeMerged(totalMap, minSSTableLevel) \/ Len(files) = 0
          THEN ~fail /\ cx' = [cx EXCEPT ![Writer].pc = "done"] /\ UNCHANGED <<levelLocks, nFaults>>
          ELSE IF fail \/ ld.err
          THEN /\ fail => nFaults < MaxFaults
               /\ nFaults' = IF fail THEN nFaults + 1 ELSE nFaults
               /\ cx' = [cx EXCEPT ![Writer] = [@ EXCEPT !.pc = "done", !.err = TRUE,
                                                         !.files = files]]
               /\ UNCHANGED levelLocks
          ELSE /\ levelLocks' = [levelLocks EXCEPT ![minSSTableLevel] = Writer]
               /\ cx' = [cx EXCEPT ![Writer] = [@ EXCEPT !.pc = "merge", !.files = files,
                                                         !.blocks = ld.blocks]]
               /\ UNCHANGED nFaults
    /\ UNCHANGED <<memv, diskv, mgrv, compacting, compactingLevel, compactingLevels,
                   wr, rd, acked, recovered, nOps, nCrashes, sizeBase, unit, nGets>>

\* compactLevel(level) of the worker: take the lock of the level, choose
\* and load the inputs; at the last level newLevelCompaction instead.
compactLevel(t) ==
    /\ t \in Workers
    /\ cx[t].pc = "lock"
    /\ levelLocks[cx[t].lvl] = Free
    /\ LET level == cx[t].lvl
           locked == [levelLocks EXCEPT ![level] = t]
           n == Len(totalMap[level])
       IN IF level >= maxSSTableLevel
          THEN \* newLevelCompaction
               LET cur == getFilesByLevel(totalMap, level)
                   ld == LoadBlocks(sstFiles, cur, 1)
                   out == CompactAndMergeBlocks(ld.blocks, level + 1)
                   ids == sstIdGenerator + Len(cur)
               IN IF Len(cur) = 0 \/ ld.err
                  THEN /\ cx' = [cx EXCEPT ![t] = [IdleCx EXCEPT !.pc = "loop",
                                     !.base = cx[t].base, !.lvl = cx[t].base, !.err = ld.err]]
                       /\ levelLocks' = Release(levelLocks, t)
                       /\ UNCHANGED mgrv
                  ELSE /\ levelLocks' = locked
                       /\ cx' = [cx EXCEPT ![t] = [@ EXCEPT !.pc = "remove", !.files = cur,
                                     !.oldNext = <<>>,
                                     !.tables = NameTables(out, level + 1, ids)]]
                       /\ sstIdGenerator' = ids + BuildersUsed(out)
                       /\ UNCHANGED <<totalMap, metaInfos>>
          ELSE IF ~isLevelNeedToBeMerged(totalMap, level)
          THEN /\ cx' = [cx EXCEPT ![t] = [IdleCx EXCEPT !.pc = "loop",
                             !.base = cx[t].base, !.lvl = cx[t].base]]
               /\ levelLocks' = Release(levelLocks, t)
               /\ UNCHANGED mgrv
          ELSE LET sel == getLevelSmallestKFilesByKey(totalMap[level],
                                                      n - maxFileNumsInLevel(level))
                   ld == LoadBlocks(sstFiles, sel.files, 1)
               IN /\ totalMap' = [totalMap EXCEPT ![level] = sel.infos]
                  /\ UNCHANGED <<sstIdGenerator, metaInfos>>
                  /\ IF Len(sel.files) = 0 \/ ld.err
                     THEN /\ cx' = [cx EXCEPT ![t] = [IdleCx EXCEPT !.pc = "loop",
                                        !.base = cx[t].base, !.lvl = cx[t].base,
                                        !.err = ld.err]]
                          /\ levelLocks' = Release(levelLocks, t)
                     ELSE /\ levelLocks' = locked
                          /\ cx' = [cx EXCEPT ![t] = [@ EXCEPT !.pc = "merge",
                                        !.files = sel.files, !.blocks = ld.blocks]]
    /\ UNCHANGED <<memv, diskv, compacting, compactingLevel, compactingLevels,
                   wr, rd, acked, recovered, cntv>>

\* mergeNextLevelFiles under the lock of the next level, then
\* CompactAndMergeBlocks; the builders take their ids.
MergeNextLevel(t) ==
    /\ cx[t].pc = "merge"
    /\ levelLocks[cx[t].lvl + 1] = Free
    /\ LET next == cx[t].lvl + 1
           rng == getGlobalKeyRange(cx[t].blocks)
           nx == mergeNextLevelBlocks(sstFiles, getFilesByLevel(totalMap, next), 1,
                                      rng.minK, rng.maxK)
           out == CompactAndMergeBlocks(cx[t].blocks \o nx.blocks, next)
       IN IF nx.err
          THEN Leave(t, TRUE) /\ UNCHANGED sstIdGenerator
          ELSE /\ cx' = [cx EXCEPT ![t] = [@ EXCEPT !.pc = "remove", !.oldNext = nx.files,
                             !.tables = NameTables(out, next, sstIdGenerator)]]
               /\ sstIdGenerator' = sstIdGenerator + BuildersUsed(out)
               /\ UNCHANGED levelLocks
    /\ UNCHANGED <<memv, diskv, totalMap, metaInfos, compacting, compactingLevel,
                   compactingLevels, wr, rd, acked, recovered, cntv>>

\* removeOldSSTables of the inputs of the level, then of the next level.
RemoveOld(t) ==
    /\ cx[t].pc = "remove"
    /\ totalMap' = removeFromMap(removeFromMap(totalMap, cx[t].files, 1, cx[t].lvl),
                                 cx[t].oldNext, 1, cx[t].lvl + 1)
    /\ metaInfos' = (metaInfos \ SeqToSet(cx[t].files)) \ SeqToSet(cx[t].oldNext)
    /\ sstFiles' = removeFiles(sstFiles, cx[t].files \o cx[t].oldNext)
    /\ cx' = [cx EXCEPT ![t].pc = "add"]
    /\ UNCHANGED <<memv, partialFiles, sstIdGenerator, flagv, wr, rd, acked, recovered, cntv>>

\* addNewSSTables, and what the caller does with its result.  fail is the
\* outcome of the first EncodeTo.
AddNew(t, fail) ==
    /\ cx[t].pc = "add"
    /\ LET tm == addNewToMap(totalMap, cx[t].tables, 1)
           next == cx[t].lvl + 1
       IN IF fail
          THEN /\ nFaults < MaxFaults
               /\ Len(cx[t].tables) > 0
               /\ nFaults' = nFaults + 1
               /\ partialFiles' = partialFiles \cup {cx[t].tables[1].path}
               /\ IF t = Writer
                  THEN cx' = [cx EXCEPT ![t] = [@ EXCEPT !.pc = "done", !.err = TRUE]]
                  ELSE cx' = [cx EXCEPT ![t] = [@ EXCEPT !.pc = "loop", !.err = TRUE,
                                                         !.lvl = cx[t].base]]
               /\ levelLocks' = Release(levelLocks, t)
               /\ UNCHANGED <<sstFiles, totalMap, metaInfos, compacting, compactingLevel>>
          ELSE /\ sstFiles' = addNewToDisk(sstFiles, cx[t].tables)
               /\ totalMap' = tm
               /\ metaInfos' = addNewToMeta(metaInfos, cx[t].tables)
               /\ UNCHANGED <<partialFiles, nFaults>>
               /\ IF t = Writer
                  THEN /\ levelLocks' = Release(levelLocks, t)
                       /\ IF isLevelNeedToBeMerged(tm, next) /\ ~compacting
                          THEN /\ compacting' = TRUE
                               /\ compactingLevel' = next
                               /\ cx' = [cx EXCEPT ![t].pc = "done",
                                                   ![1] = [IdleCx EXCEPT !.pc = "loop",
                                                              !.base = next, !.lvl = next]]
                          ELSE /\ cx' = [cx EXCEPT ![t].pc = "done"]
                               /\ UNCHANGED <<compacting, compactingLevel>>
                  ELSE IF cx[t].lvl < maxSSTableLevel /\ isLevelNeedToBeMerged(tm, next)
                  THEN /\ compacting' = TRUE
                       /\ compactingLevel' = next
                       /\ cx' = [cx EXCEPT ![t] = [IdleCx EXCEPT !.pc = "lock",
                                     !.base = cx[t].base, !.lvl = next]]
                       /\ UNCHANGED levelLocks
                  ELSE /\ levelLocks' = Release(levelLocks, t)
                       /\ cx' = [cx EXCEPT ![t] = [IdleCx EXCEPT !.pc = "loop",
                                     !.base = cx[t].base, !.lvl = cx[t].base]]
                       /\ UNCHANGED <<compacting, compactingLevel>>
    /\ UNCHANGED <<memv, sstIdGenerator, compactingLevels, wr, rd, acked, recovered,
                   nOps, nCrashes, sizeBase, unit, nGets>>

\* endCompaction: clear the flag and the level, wake every sleeper of the
\* condition variable.
BroadcastLost(r) == r

Broadcast(r) == [r EXCEPT !.blocked = FALSE, !.woken = r.blocked \/ r.woken]

endCompaction ==
    /\ compacting' = FALSE
    /\ compactingLevel' = -1
    /\ rd' = Broadcast(rd)

\* asyncCompactLevel: the test of the loop; when the loop ends, endCompaction.
asyncCompactLevel(t) ==
    /\ t \in Workers
    /\ cx[t].pc = "loop"
    /\ IF ~cx[t].err /\ isLevelNeedToBeMerged(totalMap, cx[t].base)
       THEN /\ cx' = [cx EXCEPT ![t].pc = "lock"]
            /\ UNCHANGED <<compacting, compactingLevel, rd>>
       ELSE /\ cx' = [cx EXCEPT ![t] = IdleCx]
            /\ endCompaction
    /\ UNCHANGED <<memv, diskv, mgrv, levelLocks, compactingLevels, wr, acked,
                   recovered, cntv>>

\* ------------------------------------------------------ crash and recovery
Quiescent == wr.pc = "idle" /\ rd.pc = "idle" /\ \A t \in Threads : cx[t].pc = "idle"

\* The process dies and Open runs again: the generators of the new process
\* start at 0, the managers are new, the directories are what they were.
Crash ==
    /\ Quiescent
    /\ recovered # "failed"
    /\ nCrashes < MaxCrashes
    /\ nCrashes' = nCrashes + 1
    /\ Mem' = NewMemTable(1)
    /\ walFiles' = NewWAL(walFiles, 1)
    /\ IMems' = <<>>
    /\ memIdGenerator' = 1
    /\ IDGen' = 0
    /\ sstIdGenerator' = 0
    /\ totalMap' = [l \in Levels |-> <<>>]
    /\ metaInfos' = {}
    /\ compacting' = FALSE
    /\ compactingLevel' = -1
    /\ levelLocks' = [l \in Levels |-> Free]
    /\ compactingLevels' = {}
    /\ wr' = [IdleWr EXCEPT !.pc = "recover"]
    /\ recovered' = "none"
    /\ UNCHANGED <<diskv, cx, rd, acked, nOps, nFaults, nGets, sizeBase, unit>>

RECURSIVE SortedSeq(_)
SortedSeq(S) ==
    IF S = {} THEN <<>>
    ELSE LET m == CHOOSE x \in S : \A y \in S : x <= y IN <<m>> \o SortedSeq(S \ {m})

\* MemTable.RecoverFromWAL: the handle wal.Recover returns becomes the WAL
\* of the table, then every pair of the file is inserted.
RECURSIVE ReplayPairs(_, _, _, _)
ReplayPairs(mem, files, pairs, i) ==
    IF i > Len(pairs) THEN [mem |-> mem, files |-> files, err |-> FALSE]
    ELSE LET r == MemInsert(mem, files, pairs[i]) IN
         IF r.err THEN [mem |-> mem, files |-> files, err |-> TRUE]
         ELSE ReplayPairs(r.mem, r.files, pairs, i + 1)

RecoverFromWAL(files, id) ==
    ReplayPairs([NewMemTableWithoutWAL EXCEPT !.id = id, !.wal = RecoveredWALHandle(id)],
                files, files[id], 1)

\* memtable Manager.Recover: the WAL files by ascending id; the last one
\* becomes the active table, the others frozen tables, at most
\* maxIMemTableCount of them.
RECURSIVE RecoverLoop(_, _, _, _, _, _)
RecoverLoop(ids, i, mem, imems, files, gen) ==
    IF i > Len(ids)
    THEN [mem |-> mem, files |-> files, gen |-> gen, err |-> FALSE,
          imems |-> IF Len(imems) > maxIMemTableCount
                    THEN SubSeq(imems, Len(imems) - maxIMemTableCount + 1, Len(imems))
                    ELSE imems]
    ELSE LET r == RecoverFromWAL(files, ids[i]) IN
         IF r.err
         THEN [mem |-> mem, files |-> files, gen |-> gen, err |-> TRUE, imems |-> imems]
         ELSE IF i = Len(ids)
         THEN RecoverLoop(ids, i + 1, r.mem, imems, r.files, gen + ids[i])
         ELSE RecoverLoop(ids, i + 1, mem, Append(imems, NewIMemTable(r.mem)), r.files, gen)

ManagerRecover(mem, imems, files, gen) ==
    RecoverLoop(SortedSeq(DOMAIN files), 1, mem, imems, files, gen)

\* sstable Manager.Recover: the files of every level directory by ascending
\* id; a file whose meta data cannot be decoded ends the recovery.
RECURSIVE RecoverTables(_, _, _, _, _)
RecoverTables(disk, partial, paths, i, acc) ==
    IF i > Len(paths) THEN acc
    ELSE IF acc.err THEN acc
    ELSE IF paths[i] \in partial THEN [acc EXCEPT !.err = TRUE]
    ELSE RecoverTables(disk, partial, paths, i + 1,
             [acc EXCEPT !.tm = addTableMap(@, paths[i], disk[paths[i]]),
                         !.mi = addTableMeta(@, paths[i])])

LevelDir(disk, partial, level) ==
    LET ids == {f[2] : f \in {g \in (DOMAIN disk) \cup partial : PathLevel(g) = level}}
        sq == SortedSeq(ids)
    IN [i \in 1..Len(sq) |-> Path(level, sq[i])]

RECURSIVE SSTRecoverLoop(_, _, _, _)
SSTRecoverLoop(disk, partial, level, acc) ==
    IF level > maxSSTableLevel \/ acc.err THEN acc
    ELSE LET dir == LevelDir(disk, partial, level)
             latest == IF Len(dir) = 0 THEN 0 ELSE dir[Len(dir)][2]
             a1 == [acc EXCEPT !.maxID = IF latest > @ THEN latest ELSE @]
         IN SSTRecoverLoop(disk, partial, level + 1, RecoverTables(disk, partial, dir, 1, a1))

SSTablesRecover(disk, partial) ==
    SSTRecoverLoop(disk, partial, minSSTableLevel,
                   [tm |-> [l \in Levels |-> <<>>], mi |-> {}, maxID |-> 0, err |-> FALSE])

\* Database.Recover: the memtables, then the SSTables; the first error ends it.
Recover ==
    /\ wr.pc = "recover"
    /\ LET m == ManagerRecover(Mem, IMems, walFiles, memIdGenerator)
           t == SSTablesRecover(sstFiles, partialFiles)
       IN /\ Mem' = m.mem
          /\ IMems' = m.imems
          /\ walFiles' = m.files
          /\ memIdGenerator' = m.gen
          /\ IF m.err
             THEN /\ recovered' = "failed"
                  /\ UNCHANGED mgrv
             ELSE /\ totalMap' = t.tm
                  /\ metaInfos' = t.mi
                  /\ sstIdGenerator' = IF t.err THEN sstIdGenerator ELSE sstIdGenerator + t.maxID
                  /\ recovered' = IF t.err THEN "failed" ELSE "ok"
    /\ wr' = IdleWr
    /\ UNCHANGED <<IDGen, diskv, flagv, cx, rd, acked, cntv>>

Next ==
    \/ \E k \in Keys : Put(k)
    \/ \E k \in Keys : Delete(k)
    \/ \E k \in Keys : PutAppendFails(k)
    \/ \E fail \in BOOLEAN : CreateNewSSTable(fail)
    \/ CompactionReturns
    \/ \E k \in Keys : GetMem(k)
    \/ SearchBlocks
    \/ SearchList
    \/ SearchScan
    \/ GetReturns
    \/ \E fail \in BOOLEAN : Compaction(fail)
    \/ \E t \in Workers : compactLevel(t)
    \/ \E t \in Threads : MergeNextLevel(t)
    \/ \E t \in Threads : RemoveOld(t)
    \/ \E t \in Threads, fail \in BOOLEAN : AddNew(t, fail)
    \/ \E t \in Workers : asyncCompactLevel(t)
    \/ Crash
    \/ Recover

Spec == Init /\ [][Next]_vars

TypeOK == wr.pc \in {"idle", "flush", "compact", "recover"}

\* ---------------------------------------------------- the pair engine
\* (compaction over key/value pairs) Thread 0 runs Compaction inside the
\* write, the workers run asyncCompactLevel.  The client of this engine
\* puts keys of KeysKV.

PutKV(k) ==
    /\ wr.pc = "idle"
    /\ nOps < MaxOpsKV
    /\ AfterManager(ManagerInsert(Mem, IMems, walFiles, IDGen, Pair(k, nOps + 1)), k, nOps + 1)

\* The levels whose compactLevel frames the thread has on its stack.
FramesOf(t) ==
    IF cx[t].pc \in {"kselect", "kremove", "kadd", "kend"} THEN cx[t].base..cx[t].lvl
    ELSE IF cx[t].pc = "kstart" THEN cx[t].base..(cx[t].lvl - 1)
    ELSE {}

\* Compaction: waitCompaction(0) lets the writer pass when the flag of level
\* 0 is down; then the test of the level.
CompactionKV ==
    /\ cx[Writer].pc = "begin"
    /\ minSSTableLevel \notin compactingLevels
    /\ cx' = [cx EXCEPT ![Writer].pc =
                 IF isLevelNeedToBeMerged(totalMap, minSSTableLevel) THEN "kstart" ELSE "done"]
    /\ UNCHANGED <<memv, diskv, mgrv, flagv, wr, rd, acked, recovered, cntv>>

\* asyncCompactLevel, head of the loop: waitCompaction(level), then the test
\* of the level.
asyncCompactLevelKV(t) ==
    /\ t \in Workers
    /\ cx[t].pc = "kwait"
    /\ cx[t].base \notin compactingLevels
    /\ cx' = [cx EXCEPT ![t] =
                 IF isLevelNeedToBeMerged(totalMap, cx[t].base)
                 THEN [@ EXCEPT !.pc = "kstart", !.lvl = cx[t].base]
                 ELSE IdleCx]
    /\ UNCHANGED <<memv, diskv, mgrv, flagv, wr, rd, acked, recovered, cntv>>

\* compactLevel(level), first statement: startCompaction raises the flag.
startCompaction(t) ==
    /\ cx[t].pc = "kstart"
    /\ compactingLevels' = compactingLevels \cup {cx[t].lvl}
    /\ cx' = [cx EXCEPT ![t].pc = "kselect"]
    /\ UNCHANGED <<memv, diskv, mgrv, compacting, compactingLevel, levelLocks, wr, rd,
                   acked, recovered, cntv>>

\* The inputs compactLevel takes from its level: all files of level 0, above
\* it the first maxFileNumsInLevel files of the list.
levelInputsOne(all, level) ==
    IF level > minSSTableLevel THEN SubSeq(all, 1, Min(1, Len(all))) ELSE all

levelInputs(all, level) ==
    IF level > minSSTableLevel
    THEN SubSeq(all, 1, Min(maxFileNumsInLevel(level), Len(all)))
    ELSE all

\* compactLevel(level): the inputs of the level (the slice expression panics
\* on a level that has become empty and ends the attempt), their pairs, the
\* tables of the next level inside the key range, CompactAndMergeKVs.  fail
\* is the outcome of reading the input files.
compactLevelKV(t, fail) ==
    /\ cx[t].pc = "kselect"
    /\ LET level == cx[t].lvl
           all == getFilesByLevel(totalMap, level)
           panics == level > minSSTableLevel /\ Len(all) = 0
           files == levelInputs(all, level)
           ld == loadLevelData(metaInfos, sstFiles, files, 1)
           rng == getGlobalKeyRangeFromPairs(ld.pairs)
           nx == IF level < maxSSTableLevel
                 THEN mergeNextLevelFiles(metaInfos, sstFiles,
                          getFilesByLevel(totalMap, level + 1), 1, rng.minK, rng.maxK)
                 ELSE [pairs |-> <<>>, files |-> <<>>, err |-> FALSE]
           out == CompactAndMergeKVs(ld.pairs \o nx.pairs, level + 1)
       IN IF fail \/ panics \/ ld.err \/ nx.err
          THEN /\ fail => (nFaults < MaxFaults /\ Len(files) > 0)
               /\ nFaults' = IF fail THEN nFaults + 1 ELSE nFaults
               /\ cx' = [cx EXCEPT ![t] = [@ EXCEPT !.pc = "kend", !.err = TRUE]]
               /\ UNCHANGED sstIdGenerator
          ELSE /\ cx' = [cx EXCEPT ![t] = [@ EXCEPT !.pc = "kremove", !.files = files,
                             !.oldNext = nx.files,
                             !.tables = NameTables(out, level + 1, sstIdGenerator)]]
               /\ sstIdGenerator' = sstIdGenerator + BuildersUsed(out)
               /\ UNCHANGED nFaults
    /\ UNCHANGED <<memv, diskv, totalMap, metaInfos, flagv, wr, rd, acked, recovered,
                   nOps, nCrashes, nGets, sizeBase, unit>>

\* removeOldSSTables of the inputs, before the new tables exist.
RemoveOldKV(t) ==
    /\ cx[t].pc = "kremove"
    /\ totalMap' = removeFromMap(removeFromMap(totalMap, cx[t].files, 1, cx[t].lvl),
                                 cx[t].oldNext, 1, cx[t].lvl + 1)
    /\ metaInfos' = (metaInfos \ SeqToSet(cx[t].files)) \ SeqToSet(cx[t].oldNext)
    /\ sstFiles' = removeFiles(sstFiles, cx[t].files \o cx[t].oldNext)
    /\ cx' = [cx EXCEPT ![t].pc = "kadd"]
    /\ UNCHANGED <<memv, partialFiles, sstIdGenerator, flagv, wr, rd, acked, recovered, cntv>>

\* addNewSSTables, then the recursion into the next level when that one is
\* over its limit: no wait comes before it.
AddNewKV(t, fail) ==
    /\ cx[t].pc = "kadd"
    /\ LET tm == addNewToMap(totalMap, cx[t].tables, 1)
           next == cx[t].lvl + 1
       IN IF fail
          THEN /\ nFaults < MaxFaults
               /\ Len(cx[t].tables) > 0
               /\ nFaults' = nFaults + 1
               /\ partialFiles' = partialFiles \cup {cx[t].tables[1].path}
               /\ cx' = [cx EXCEPT ![t] = [@ EXCEPT !.pc = "kend", !.err = TRUE]]
               /\ UNCHANGED <<sstFiles, totalMap, metaInfos>>
          ELSE /\ sstFiles' = addNewToDisk(sstFiles, cx[t].tables)
               /\ totalMap' = tm
               /\ metaInfos' = addNewToMeta(metaInfos, cx[t].tables)
               /\ UNCHANGED <<partialFiles, nFaults>>
               /\ IF cx[t].lvl < maxSSTableLevel /\ isLevelNeedToBeMerged(tm, next)
                  THEN cx' = [cx EXCEPT ![t] = [IdleCx EXCEPT !.pc = "kstart",
                                  !.base = cx[t].base, !.lvl = next]]
                  ELSE cx' = [cx EXCEPT ![t] = [IdleCx EXCEPT !.pc = "kend",
                                  !.base = cx[t].base, !.lvl = cx[t].lvl]]
    /\ UNCHANGED <<memv, sstIdGenerator, flagv, wr, rd, acked, recovered,
                   nOps, nCrashes, sizeBase, unit, nGets>>

FreeWorkers == {w \in Workers : cx[w].pc = "idle"}

endCompactionKVKeepsFlags(t) ==
    /\ cx[t].pc \in {"kend", "kgo"}
    /\ compactingLevels' = compactingLevels
    /\ IF t = Writer
       THEN IF ~cx[t].err /\ isLevelNeedToBeMerged(totalMap, minSSTableLevel + 1)
            THEN IF FreeWorkers = {}
                 THEN /\ cx[t].pc = "kend"
                      /\ cx' = [cx EXCEPT ![t] = [IdleCx EXCEPT !.pc = "kgo"]]
                 ELSE LET w == CHOOSE x \in FreeWorkers : \A y \in FreeWorkers : x <= y IN
                      cx' = [cx EXCEPT ![t].pc = "done",
                                       ![w] = [IdleCx EXCEPT !.pc = "kwait",
                                                  !.base = minSSTableLevel + 1,
                                                  !.lvl = minSSTableLevel + 1]]
            ELSE cx' = [cx EXCEPT ![t].pc = "done"]
       ELSE IF ~cx[t].err /\ cx[t].base < maxSSTableLevel
               /\ isLevelNeedToBeMerged(totalMap, cx[t].base + 1)
            THEN cx' = [cx EXCEPT ![t] = [IdleCx EXCEPT !.pc = "kwait",
                            !.base = cx[t].base, !.lvl = cx[t].base]]
            ELSE cx' = [cx EXCEPT ![t] = IdleCx]
    /\ UNCHANGED <<memv, diskv, mgrv, compacting, compactingLevel, levelLocks, wr, rd,
                   acked, recovered, cntv>>

\* The deferred endCompaction of every frame of the thread lowers the flags;
\* then Compaction starts a worker for level 1 when that level is over its
\* limit, and asyncCompactLevel goes round its loop or returns.  The go
\* statement of Compaction waits at "kgo", the flags already lowered, while
\* every worker of the model is taken.
endCompactionKV(t) ==
    /\ cx[t].pc \in {"kend", "kgo"}
    /\ compactingLevels' = IF cx[t].pc = "kgo" THEN compactingLevels
                           ELSE compactingLevels \ (cx[t].base..cx[t].lvl)
    /\ IF t = Writer
       THEN IF ~cx[t].err /\ isLevelNeedToBeMerged(totalMap, minSSTableLevel + 1)
            THEN IF FreeWorkers = {}
                 THEN /\ cx[t].pc = "kend"
                      /\ cx' = [cx EXCEPT ![t] = [IdleCx EXCEPT !.pc = "kgo"]]
                 ELSE LET w == CHOOSE x \in FreeWorkers : \A y \in FreeWorkers : x <= y IN
                      cx' = [cx EXCEPT ![t].pc = "done",
                                       ![w] = [IdleCx EXCEPT !.pc = "kwait",
                                                  !.base = minSSTableLevel + 1,
                                                  !.lvl = minSSTableLevel + 1]]
            ELSE cx' = [cx EXCEPT ![t].pc = "done"]
       ELSE IF ~cx[t].err /\ cx[t].base < maxSSTableLevel
               /\ isLevelNeedToBeMerged(totalMap, cx[t].base + 1)
            THEN cx' = [cx EXCEPT ![t] = [IdleCx EXCEPT !.pc = "kwait",
                            !.base = cx[t].base, !.lvl = cx[t].base]]
            ELSE cx' = [cx EXCEPT ![t] = IdleCx]
    /\ UNCHANGED <<memv, diskv, mgrv, compacting, compactingLevel, levelLocks, wr, rd,
                   acked, recovered, cntv>>

NextKV ==
    \/ \E k \in KeysKV : PutKV(k)
    \/ \E fail \in BOOLEAN : CreateNewSSTable(fail)
    \/ CompactionReturns
    \/ CompactionKV
    \/ \E t \in Workers : asyncCompactLevelKV(t)
    \/ \E t \in Threads : startCompaction(t)
    \/ \E t \in Threads, fail \in BOOLEAN : compactLevelKV(t, fail)
    \/ \E t \in Threads : RemoveOldKV(t)
    \/ \E t \in Threads, fail \in BOOLEAN : AddNewKV(t, fail)
    \/ \E t \in Threads : endCompactionKV(t)

SpecKV == Init /\ [][NextKV]_vars

\* ------------------------------------- the pair engine, source capacities
\* The same engine built with the levelSizeBase of the source: the capacity
\* doubles from level to level.
PutCap(k) ==
    /\ wr.pc = "idle"
    /\ nOps < MaxOpsCap
    /\ AfterManager(ManagerInsert(Mem, IMems, walFiles, IDGen, Pair(k, nOps + 1)), k, nOps + 1)

InitCap == Open /\ sizeBase = levelSizeBaseOfSource /\ unit = [op |-> "none"]

NextCap ==
    \/ \E k \in KeysKV : PutCap(k)
    \/ \E fail \in BOOLEAN : CreateNewSSTable(fail)
    \/ CompactionReturns
    \/ CompactionKV
    \/ \E t \in Workers : asyncCompactLevelKV(t)
    \/ \E t \in Threads : startCompaction(t)
    \/ \E t \in Threads, fail \in BOOLEAN : compactLevelKV(t, fail)
    \/ \E t \in Threads : RemoveOldKV(t)
    \/ \E t \in Threads, fail \in BOOLEAN : AddNewKV(t, fail)
    \/ \E t \in Threads : endCompactionKV(t)

SpecCap == InitCap /\ [][NextCap]_vars

\* The threads keep running: the writer inside a put goes on through the
\* flush and Compaction, a goroutine started for asyncCompactLevel goes on
\* through its steps.  Nothing obliges the client to put.  compactLevel at
\* its merge can always take a step (it ends in the next state of the
\* attempt or in its error return), so weak fairness of that step is
\* written with its enabling condition, the position of the thread.
RunsOn ==
    /\ WF_vars(\E fail \in BOOLEAN : CreateNewSSTable(fail))
    /\ WF_vars(CompactionReturns)
    /\ WF_vars(CompactionKV)
    /\ \A t \in Threads :
        /\ WF_vars(asyncCompactLevelKV(t))
        /\ WF_vars(startCompaction(t))
        /\ \/ []<>(cx[t].pc # "kselect")
           \/ []<><<\E fail \in BOOLEAN : compactLevelKV(t, fail)>>_vars
        /\ WF_vars(RemoveOldKV(t))
        /\ WF_vars(\E fail \in BOOLEAN : AddNewKV(t, fail))
        /\ WF_vars(endCompactionKV(t))

FairCap == InitCap /\ [][NextCap]_vars /\ RunsOn

\* ------------------------------------ the pair engine, gets around it
\* The pair engine under a client that puts keys of Keys and compares what
\* get returns before and after the compaction a put runs.
PutGet(k) ==
    /\ wr.pc = "idle"
    /\ nOps < MaxOpsGet
    /\ AfterManager(ManagerInsert(Mem, IMems, walFiles, IDGen, Pair(k, nOps + 1)), k, nOps + 1)

\* The client's gets right before Compaction starts, for every key.
GetBefore ==
    /\ wr.pc = "compact"
    /\ cx[Writer].pc = "begin"
    /\ \A w \in Workers : cx[w].pc = "idle"
    /\ unit # [op |-> "get", at |-> nOps, before |-> [k \in Keys |-> DatabaseGet(k)]]
    /\ unit' = [op |-> "get", at |-> nOps, before |-> [k \in Keys |-> DatabaseGet(k)]]
    /\ UNCHANGED <<memv, diskv, mgrv, flagv, wr, cx, rd, acked, recovered,
                   nOps, nFaults, nCrashes, nGets, sizeBase>>

NextGet ==
    \/ \E k \in Keys : PutGet(k)
    \/ \E fail \in BOOLEAN : CreateNewSSTable(fail)
    \/ CompactionReturns
    \/ GetBefore
    \/ CompactionKV
    \/ \E t \in Workers : asyncCompactLevelKV(t)
    \/ \E t \in Threads : startCompaction(t)
    \/ \E t \in Threads, fail \in BOOLEAN : compactLevelKV(t, fail)
    \/ \E t \in Threads : RemoveOldKV(t)
    \/ \E t \in Threads, fail \in BOOLEAN : AddNewKV(t, fail)
    \/ \E t \in Threads : endCompactionKV(t)

SpecGet == Init /\ [][NextGet]_vars

\* ------------------------------------- puts and deletes at the source's ratio
\* A client that puts and deletes keys of Keys while level 0 stays within
\* its capacity of levelSizeBaseOfSource^2 files: no compaction starts.
DeleteKey(k) ==
    /\ wr.pc = "idle"
    /\ nOps < MaxOpsGet
    /\ AfterManager(ManagerDelete(Mem, IMems, walFiles, IDGen, k), k, DeletedValue)

NextDel ==
    \/ \E k \in Keys : PutGet(k)
    \/ \E k \in Keys : DeleteKey(k)
    \/ \E fail \in BOOLEAN : CreateNewSSTable(fail)

SpecDel == InitCap /\ [][NextDel]_vars

\* ------------------------------------------------ the merge, on its own
\* CompactAndMergeKVs on the pairs of one table of the level being compacted
\* (upper) followed by the pairs of one table of the next level (lower), as
\* compactLevel hands them over.  A table holds a key once; the lower table
\* holds the value 1, the upper table the value 2, either may hold the
\* tombstone.
InitMerge ==
    LET TablesOf(v) == {RangeScan(e) : e \in UNION {[K -> {DeletedValue, v}] : K \in SUBSET Keys}}
    IN /\ Open
       /\ sizeBase = levelSizeBase
       /\ \E upper \in TablesOf(2), lower \in TablesOf(1), level \in 1..maxSSTableLevel :
              unit = [op |-> "merge", upper |-> upper, lower |-> lower, level |-> level,
                      done |-> FALSE, out |-> <<>>]

MergeKVs ==
    /\ unit.op = "merge"
    /\ ~unit.done
    /\ unit' = [unit EXCEPT !.done = TRUE,
                            !.out = CompactAndMergeKVs(unit.upper \o unit.lower, unit.level)]
    /\ UNCHANGED <<memv, diskv, mgrv, flagv, wr, cx, rd, acked, recovered,
                   nOps, nFaults, nCrashes, nGets, sizeBase>>

SpecMerge == InitMerge /\ [][MergeKVs]_vars

\* ------------------------------- the tables of the next level, on their own
\* mergeNextLevelFiles of the pair engine on a next level of up to
\* MaxNextTables registered tables and the key range [minK, maxK] of the
\* inputs compactLevel has loaded.
InitOverlap ==
    LET Tables == {RangeScan([k \in K |-> 1]) : K \in (SUBSET Keys) \ {{}}}
    IN /\ Open
       /\ sizeBase = levelSizeBase
       /\ \E n \in 1..MaxNextTables, level \in 1..maxSSTableLevel, minK \in Keys, maxK \in Keys :
              /\ minK <= maxK
              /\ \E next \in [1..n -> Tables] :
                     unit = [op |-> "overlap", next |-> next, level |-> level,
                             minK |-> minK, maxK |-> maxK, done |-> FALSE, files |-> <<>>]

OverlapSelect ==
    /\ unit.op = "overlap"
    /\ ~unit.done
    /\ LET paths == [i \in 1..Len(unit.next) |-> Path(unit.level, i)]
           disk == [p \in SeqToSet(paths) |-> unit.next[p[2]]]
       IN unit' = [unit EXCEPT !.done = TRUE,
                       !.files = mergeNextLevelFiles(SeqToSet(paths), disk, paths, 1,
                                                     unit.minK, unit.maxK).files]
    /\ UNCHANGED <<memv, diskv, mgrv, flagv, wr, cx, rd, acked, recovered,
                   nOps, nFaults, nCrashes, nGets, sizeBase>>

SpecOverlap == InitOverlap /\ [][OverlapSelect]_vars

\* --------------------------------------- the manager mutex of the pair engine
\* waitCompaction(lw) of one thread against startCompaction(lc) and
\* endCompaction(lc) of a thread that is inside compactLevel(lc).  m.mu is
\* a sync.RWMutex: RLock waits while a writer holds the lock or has asked
\* for it, Lock asks first and then waits for the readers to leave.
\* readers counts the read locks held, pending is a Lock that was called and
\* has not been released, woken is the Broadcast a sleeper has received.
InitLocks ==
    /\ Open
    /\ sizeBase = levelSizeBase
    /\ \E lw \in minSSTableLevel..maxSSTableLevel, lc \in minSSTableLevel..maxSSTableLevel :
           unit = [op |-> "locks", lw |-> lw, lc |-> lc, readers |-> 0, pending |-> FALSE,
                   flags |-> {}, woken |-> FALSE, waiter |-> "call", compactor |-> "start"]

CanRLock(u) == ~u.pending

\* waitCompaction(level): RLock, the loop over isLevelCompacting (which takes
\* the read lock again for its test) and compactionCond.Wait, the deferred
\* RUnlock.  The constructor of the condition variable of this engine is not
\* in the source; sync.NewCond(&mgr.mu) of the other engine makes Wait call
\* Unlock on a lock held for reading, which ends the process (fatal); a
\* condition variable on the read locker releases the read lock and sleeps.
waitCompaction(fatal) ==
    /\ unit.op = "locks"
    /\ unit.waiter \notin {"done", "fatal"}
    /\ unit' =
         IF unit.waiter = "call" /\ CanRLock(unit)
         THEN [unit EXCEPT !.readers = @ + 1, !.waiter = "test"]
         ELSE IF unit.waiter = "test" /\ CanRLock(unit)
         THEN [unit EXCEPT !.waiter = IF unit.lw \in unit.flags THEN "wait" ELSE "ret"]
         ELSE IF unit.waiter = "wait"
         THEN IF fatal
              THEN [unit EXCEPT !.waiter = "fatal"]
              ELSE [unit EXCEPT !.readers = @ - 1, !.woken = FALSE, !.waiter = "asleep"]
         ELSE IF unit.waiter = "asleep" /\ unit.woken /\ CanRLock(unit)
         THEN [unit EXCEPT !.readers = @ + 1, !.waiter = "test"]
         ELSE IF unit.waiter = "ret"
         THEN [unit EXCEPT !.readers = @ - 1, !.waiter = "done"]
         ELSE unit
    /\ unit' # unit
    /\ UNCHANGED <<memv, diskv, mgrv, flagv, wr, cx, rd, acked, recovered,
                   nOps, nFaults, nCrashes, nGets, sizeBase>>

\* startCompaction and the deferred endCompaction of compactLevel: each calls
\* m.mu.Lock, and once the readers have left changes the flag of the level
\* (endCompaction broadcasts) and unlocks.
compactLevelLocks ==
    /\ unit.op = "locks"
    /\ unit.waiter # "fatal"
    /\ unit' =
         IF unit.compactor \in {"start", "end"}
         THEN [unit EXCEPT !.pending = TRUE,
                           !.compactor = IF @ = "start" THEN "startLock" ELSE "endLock"]
         ELSE IF unit.compactor = "startLock" /\ unit.readers = 0
         THEN [unit EXCEPT !.pending = FALSE, !.flags = @ \cup {unit.lc}, !.compactor = "end"]
         ELSE IF unit.compactor = "endLock" /\ unit.readers = 0
         THEN [unit EXCEPT !.pending = FALSE, !.flags = @ \ {unit.lc},
                           !.woken = (unit.waiter = "asleep"), !.compactor = "done"]
         ELSE unit
    /\ unit' # unit
    /\ UNCHANGED <<memv, diskv, mgrv, flagv, wr, cx, rd, acked, recovered,
                   nOps, nFaults, nCrashes, nGets, sizeBase>>

SpecLocks == InitLocks /\ [][(\E fatal \in BOOLEAN : waitCompaction(fatal)) \/ compactLevelLocks]_vars

\* ------------------------------------------------- the WAL file, by bytes
\* KeyValuePair.EncodeTo: the length of the key in four little-endian
\* bytes, the key, the length of the value likewise, the value.
EncodeTo(p) ==
    LET LE32(n) == <<n % 256, (n \div 256) % 256, (n \div 65536) % 256,
                     (n \div 16777216) % 256>>
    IN LE32(Len(p.key)) \o p.key \o LE32(Len(p.val)) \o p.val

RECURSIVE EncodeAll(_, _)
EncodeAll(pairs, i) ==
    IF i > Len(pairs) THEN <<>> ELSE EncodeTo(pairs[i]) \o EncodeAll(pairs, i + 1)

ReadFullShort(b, pos, n) ==
    [bytes |-> SubSeq(b, pos, Min(pos + n - 1, Len(b))), err |-> FALSE]

\* io.ReadFull of n bytes at pos: an error when fewer than n are left.
ReadFull(b, pos, n) ==
    IF pos + n - 1 > Len(b) THEN [bytes |-> <<>>, err |-> TRUE]
    ELSE [bytes |-> SubSeq(b, pos, pos + n - 1), err |-> FALSE]

\* KeyValuePair.DecodeFrom at pos: the pair and the position after it.
\* binary.Read of a length fails when fewer than four bytes are left.
DecodeFrom(b, pos) ==
    LET ReadLE32(at) ==
            IF at + 3 > Len(b) THEN [n |-> 0, err |-> TRUE]
            ELSE [n |-> b[at] + 256 * b[at + 1] + 65536 * b[at + 2] + 16777216 * b[at + 3],
                  err |-> FALSE]
        DecodeError == [pair |-> [key |-> <<>>, val |-> <<>>], pos |-> 0, err |-> TRUE]
        kl == ReadLE32(pos)
    IN IF kl.err \/ kl.n > 1048576 THEN DecodeError
       ELSE LET k == ReadFull(b, pos + 4, kl.n) IN
            IF k.err THEN DecodeError
            ELSE LET vl == ReadLE32(pos + 4 + kl.n) IN
                 IF vl.err \/ vl.n > 1073741824 THEN DecodeError
                 ELSE LET v == ReadFull(b, pos + 8 + kl.n, vl.n) IN
                      IF v.err THEN DecodeError
                      ELSE [pair |-> [key |-> k.bytes, val |-> v.bytes],
                            pos |-> pos + 8 + kl.n + vl.n, err |-> FALSE]

\* wal.Recover: decode while bytes are left, stop with an error at the
\* first pair that does not decode.
RECURSIVE WALRecoverLoop(_, _, _)
WALRecoverLoop(b, pos, pairs) ==
    IF pos > Len(b) THEN [pairs |-> pairs, err |-> FALSE]
    ELSE LET d == DecodeFrom(b, pos) IN
         IF d.err THEN [pairs |-> <<>>, err |-> TRUE]
         ELSE WALRecoverLoop(b, d.pos, Append(pairs, d.pair))

\* The files under examination: up to MaxWALRecords whole records, then the
\* first cut bytes of one more record (cut = 0: no partial record).
InitWAL ==
    LET WALString == {<<>>} \cup {<<x>> : x \in 1..2}
        WALPair == [key : WALString, val : WALString]
        WALRecords == UNION {[1..n -> WALPair] : n \in 0..MaxWALRecords}
    IN /\ Open
       /\ sizeBase = levelSizeBase
       /\ \E whole \in WALRecords, last \in WALPair :
              \E cut \in 0..(Len(EncodeTo(last)) - 1) :
                  unit = [op |-> "wal", whole |-> whole, cut |-> cut,
                          bytes |-> EncodeAll(whole, 1) \o SubSeq(EncodeTo(last), 1, cut),
                          done |-> FALSE, out |-> [pairs |-> <<>>, err |-> FALSE]]

\* MemTable.RecoverFromWAL up to the return of wal.Recover.
RecoverFile ==
    /\ unit.op = "wal"
    /\ ~unit.done
    /\ unit' = [unit EXCEPT !.done = TRUE, !.out = WALRecoverLoop(unit.bytes, 1, <<>>)]
    /\ UNCHANGED <<memv, diskv, mgrv, flagv, wr, cx, rd, acked, recovered,
                   nOps, nFaults, nCrashes, nGets, sizeBase>>

SpecWAL == InitWAL /\ [][RecoverFile]_vars

\* ------------------------------------------------------------ the claims
\* The states a sequential client sees: no call in progress, no compaction
\* running, no injected I/O error, no crash so far.
Settled == Quiescent /\ nFaults = 0 /\ nCrashes = 0

IsPutValue(v) == v # NilValue /\ v # DeletedValue

\* C1: after put(k, v) has returned nil, get(k) returns v, also when the put
\* promoted the memtable, flushed a frozen table or compacted.
C1_ReadYourWrites ==
    Settled => \A k \in Keys :
        IsPutValue(acked[k]) => DatabaseGet(k) = [val |-> acked[k], err |-> FALSE]

\* C2: after delete(k) has returned nil, get(k) returns no value, also when
\* an older value of k lies in a frozen table or in an SSTable.
C2_DeleteShadows ==
    Settled => \A k \in Keys :
        acked[k] = DeletedValue => DatabaseGet(k) = [val |-> NilValue, err |-> FALSE]

\* The put values the store holds for a key: in the memtables and in the
\* registered SSTable files.
MemValues(k) ==
    {m.entries[k] : m \in {x \in {Mem} \cup SeqToSet(IMems) : k \in DOMAIN x.entries}}

TableValues(k) ==
    UNION {{sstFiles[f][i].val : i \in {j \in 1..Len(sstFiles[f]) : sstFiles[f][j].key = k}} :
           f \in {g \in UNION {SeqToSet(getFilesByLevel(totalMap, l)) : l \in Levels} :
                  g \in DOMAIN sstFiles}}

StoredValues(k) == {v \in MemValues(k) \cup TableValues(k) : IsPutValue(v)}

\* C3: when the store holds several records of a key and the last write of
\* the key was a put, get returns the newest of them, wherever they lie.
C3_LastWriterWins ==
    Settled => \A k \in Keys :
        (IsPutValue(acked[k]) /\ Cardinality(StoredValues(k)) >= 2)
            => \A v \in StoredValues(k) : DatabaseGet(k).val >= v

\* C4: a put that returned nil survives a crash that comes before its table
\* is flushed: open and recover succeed and get returns the value.
C4_Durability ==
    (nCrashes > 0 /\ wr.pc = "idle" /\ nFaults = 0) =>
        /\ recovered = "ok"
        /\ \A k \in Keys :
               IsPutValue(acked[k]) => DatabaseGet(k) = [val |-> acked[k], err |-> FALSE]

Registered(f) == f \in SeqToSet(getFilesByLevel(totalMap, PathLevel(f)))

InWAL(p) == \E id \in DOMAIN walFiles : p \in SeqToSet(walFiles[id])

InTable(p) == \E f \in DOMAIN sstFiles : Registered(f) /\ p \in SeqToSet(sstFiles[f])

\* C5: every acknowledged record that no later write replaced lies in the WAL
\* file of a memtable or in a registered SSTable file, also after a flush
\* failed.
C5_WALCoverage ==
    nCrashes = 0 => \A k \in Keys :
        IsPutValue(acked[k]) => InWAL(Pair(k, acked[k])) \/ InTable(Pair(k, acked[k]))

InAttempt(t) == cx[t].pc \in {"remove", "add"}

InputsOf(t) == SeqToSet(cx[t].files) \cup SeqToSet(cx[t].oldNext)

OutputsOf(t) == {cx[t].tables[i].path : i \in 1..Len(cx[t].tables)}

Intact(f) == f \in DOMAIN sstFiles /\ Registered(f)

\* C6: while a compaction has an input that is unregistered or unlinked,
\* every output of that compaction is on disk and registered.
C6_InputsOutliveOutputs ==
    \A t \in Threads :
        (InAttempt(t) /\ \E f \in InputsOf(t) : ~Intact(f)) => \A o \in OutputsOf(t) : Intact(o)

\* C7: when a compaction attempt returns with an I/O error, every input of
\* the attempt is on disk and registered.
C7_FailedAttemptKeepsInputs ==
    \A t \in Threads :
        (cx[t].err /\ cx[t].pc \in {"done", "loop"}) => \A f \in InputsOf(t) : Intact(f)

\* C8: a get of an acknowledged, undeleted key that runs while a compaction
\* runs, with no write of the key in flight, does not fail (it reads no
\* file that was unlinked meanwhile) and does not return no value.
C8_ConcurrentGet ==
    (rd.pc = "done" /\ rd.conc /\ ~rd.overlap /\ IsPutValue(rd.expect)
        /\ nFaults = 0 /\ nCrashes = 0) =>
        ~rd.err /\ rd.result # NilValue

C9_OneCompactionPerLevel ==
    \A t1, t2 \in Threads : t1 # t2 => FramesOf(t1) \cap FramesOf(t2) = {}

\* C11: a get never sleeps on the condition variable while it examines
\* level 0, whatever compaction runs.
C11_NoWaitAtLevel0 == rd.blocked => rd.level >= 1

C11_Witness ==
    /\ rd.pc = "scan" /\ rd.level = minSSTableLevel /\ ~rd.woken
    /\ cx[Writer].pc \in {"merge", "remove", "add"}

\* The levels a thread has a compaction in progress at.
ActiveLevels(t) ==
    IF cx[t].pc \in {"begin", "merge", "remove", "add", "lock"} THEN cx[t].base..cx[t].lvl
    ELSE IF cx[t].pc \in {"loop", "kwait"} THEN {cx[t].base}
    ELSE IF cx[t].pc \in {"kstart", "kselect", "kremove", "kadd", "kend"}
         THEN cx[t].base..cx[t].lvl
    ELSE {}

InProgressAtOrBelow(L) == \E t \in Threads : \E l \in ActiveLevels(t) : l <= L

WithinCap(L) == Len(totalMap[L]) <= maxFileNumsInLevel(L)

RangesDisjoint(a, b) ==
    \/ MaxKeyOf(sstFiles[a]) < MinKeyOf(sstFiles[b])
    \/ MaxKeyOf(sstFiles[b]) < MinKeyOf(sstFiles[a])

\* C13: at a level from 1 on that no compaction at it or below is working
\* on, any two registered tables have disjoint key ranges.
C13_DisjointRanges ==
    nFaults = 0 =>
        \A L \in 1..maxSSTableLevel :
            ~InProgressAtOrBelow(L) =>
                \A i, j \in 1..Len(totalMap[L]) :
                    i # j => RangesDisjoint(totalMap[L][i].filePath, totalMap[L][j].filePath)

\* C14: when a put returns from the level-0 compaction its flush started,
\* the compaction has run to its end: it took more than maxFileNumsInLevel(0)
\* files of level 0, level 0 is within its capacity, level 1 holds a table
\* and none of the input files exists.
CompactionRanBeforeReturn(needRecord) ==
    (wr.pc = "compact" /\ wr'.pc = "idle" /\ nFaults = 0) =>
        /\ cx[Writer].pc = "done" /\ ~cx[Writer].err
        /\ Len(cx[Writer].files) > maxFileNumsInLevel(minSSTableLevel)
        /\ Len(totalMap'[minSSTableLevel]) <= maxFileNumsInLevel(minSSTableLevel)
        /\ \A f \in SeqToSet(cx[Writer].files) : f \notin DOMAIN sstFiles'
        /\ (needRecord => \E i \in 1..Len(cx[Writer].blocks) : Len(cx[Writer].blocks[i]) > 0)
               => Len(totalMap'[minSSTableLevel + 1]) >= 1

C15_FrozenQueueBounded == Len(IMems) <= maxIMemTableCount

C15_Witness ==
    /\ wr.pc = "flush" /\ wr.imem # NoIMem
    /\ Len(IMems) = maxIMemTableCount

\* C16: a put or delete that promotes while the frozen queue is full takes
\* exactly the head out of the queue and hands that table to its caller.
C16_EvictsAndReturnsHead ==
    [][(nOps' = nOps + 1 /\ IDGen' = IDGen + 1 /\ Len(IMems) >= maxIMemTableCount) =>
          /\ Len(IMems') = Len(IMems)
          /\ \A i \in 1..(Len(IMems) - 1) : IMems'[i] = IMems[i + 1]
          /\ wr'.pc = "flush"
          /\ wr'.imem = Head(IMems)]_vars

\* C17: between two crashes the memtable a promotion opens has an id above
\* the id of every memtable opened before it, and every table a builder
\* names has an id above every id the generator handed out before.
MemIdsIncrease ==
    (nOps' = nOps + 1 /\ IDGen' = IDGen + 1) =>
        /\ Mem'.id > Mem.id
        /\ \A i \in 1..Len(IMems) : Mem'.id > IMems[i].id

SSTIdsIncrease ==
    /\ sstIdGenerator' >= sstIdGenerator
    /\ \A t \in Threads : cx'[t].tables # cx[t].tables =>
           \A i \in 1..Len(cx'[t].tables) : cx'[t].tables[i].path[2] > sstIdGenerator
    /\ \A p \in (DOMAIN sstFiles' \cup partialFiles') \ (DOMAIN sstFiles \cup partialFiles) :
           PathLevel(p) = minSSTableLevel => p[2] > sstIdGenerator

C17_IdsIncrease == [][nCrashes' = nCrashes => MemIdsIncrease /\ SSTIdsIncrease]_vars

\* C18: when Recover returns without error the id the next promotion gives
\* its memtable is above the id of every WAL file of the directory, and the
\* id the next builder gives its table is above the id of every table file.
NextMemIdAboveDisk == \A id \in DOMAIN walFiles' : IDGen' + 1 > id

NextSSTIdAboveDisk == \A p \in DOMAIN sstFiles' \cup partialFiles' : sstIdGenerator' + 1 > p[2]

C18_NextIdsAboveDisk ==
    [][(wr.pc = "recover" /\ recovered' = "ok") =>
          NextMemIdAboveDisk /\ NextSSTIdAboveDisk]_vars

\* C19: when Recover has returned, every table file of a level directory is
\* registered exactly once, in the list of the level of its directory and
\* under its own path (level and id).
RegisteredOnce(tm, p) ==
    /\ Cardinality({i \in 1..Len(tm[PathLevel(p)]) : tm[PathLevel(p)][i].filePath = p}) = 1
    /\ \A l \in Levels \ {PathLevel(p)} : \A i \in 1..Len(tm[l]) : tm[l][i].filePath # p

WALKeys(files) == UNION {{files[id][i].key : i \in 1..Len(files[id])} : id \in DOMAIN files}

C20_WALRecordsReachable ==
    [][(wr.pc = "recover" /\ wr'.pc = "idle") =>
          /\ \A id \in DOMAIN walFiles' : Mem'.id >= id
          /\ \A k \in WALKeys(walFiles') : ManagerSearch(Mem', IMems', k) # NilValue]_vars

\* C21: a WAL file that ends with a part of a record does not replay: the
\* recovery of the file returns an error and hands back no pair; a file of
\* whole records replays to exactly its records.
C21_PartialRecordFails ==
    unit.op = "wal" /\ unit.done =>
        IF unit.cut > 0
        THEN unit.out.err /\ unit.out.pairs = <<>>
        ELSE ~unit.out.err /\ unit.out.pairs = unit.whole

C21_Witness ==
    /\ unit.op = "wal" /\ unit.done
    /\ unit.cut > 0 /\ Len(unit.whole) > 0
    /\ unit.out.err

\* C22: a put that returns the error of its WAL append leaves the active
\* table (content, size, identity) and the frozen queue as they were.
C22_FailedWriteKeepsMemory ==
    [][(nOps' = nOps + 1 /\ nFaults' = nFaults + 1) =>
          Mem' = Mem /\ IMems' = IMems]_vars

\* C23: when CreateNewSSTable returns because the write of the table file
\* failed, the table is not registered and no file of it is left in the
\* level directory.
C23_FailedFlushLeavesNoFile ==
    [][(wr.pc = "flush" /\ wr'.pc = "idle" /\ nFaults' = nFaults + 1) =>
          /\ totalMap' = totalMap
          /\ DOMAIN sstFiles' = DOMAIN sstFiles
          /\ partialFiles' = partialFiles]_vars

\* C24: when the compaction a put ran has returned without error and no
\* worker runs, get returns for every key what it returned right before the
\* compaction started.
C24_CompactionKeepsReads ==
    (/\ unit.op = "get" /\ unit.at = nOps
     /\ wr.pc = "compact" /\ cx[Writer].pc = "done" /\ ~cx[Writer].err
     /\ \A w \in Workers : cx[w].pc = "idle"
     /\ nFaults = 0)
    => \A k \in Keys : DatabaseGet(k) = unit.before[k]

\* C25: the tables a merge writes hold, for every key of its inputs, one
\* record, and it is the record of the newest input holding the key: an
\* input of the level being compacted before one of the next level, and
\* within a level the one with the larger id.
HasKey(recs, k) == \E i \in 1..Len(recs) : recs[i].key = k

Newer(f, g) == PathLevel(f) < PathLevel(g) \/ (PathLevel(f) = PathLevel(g) /\ f[2] > g[2])

NewestRecord(inputs, k) ==
    LET holders == {f \in inputs : HasKey(sstFiles[f], k)}
        f == CHOOSE x \in holders : \A y \in holders \ {x} : Newer(x, y)
    IN SearchFromTable(sstFiles[f], k)

EmittedFor(tables, k) ==
    {<<i, j>> \in (1..Len(tables)) \X (1..maxSSTableSize) :
        j <= Len(tables[i].recs) /\ tables[i].recs[j].key = k}

MergedNewest(t) ==
    (cx[t].pc = "kselect" /\ cx'[t].pc = "kremove") =>
        LET inputs == SeqToSet(cx'[t].files) \cup SeqToSet(cx'[t].oldNext) IN
        \A k \in Keys :
            (\E f \in inputs : HasKey(sstFiles[f], k)) =>
                /\ Cardinality(EmittedFor(cx'[t].tables, k)) = 1
                /\ \A e \in EmittedFor(cx'[t].tables, k) :
                       cx'[t].tables[e[1]].recs[e[2]].val = NewestRecord(inputs, k)

C25_MergeKeepsNewest == [][\A t \in Threads : MergedNewest(t)]_vars

\* C26: for a key whose record in the upper table (or, when the upper table
\* lacks the key, in the lower table) is a tombstone, the merge writes that
\* tombstone and nothing else for the key below the last level, and writes
\* nothing for the key into the last level.
FreshestIsTombstone(k) ==
    IF HasKey(unit.upper, k) THEN SearchFromTable(unit.upper, k) = DeletedValue
    ELSE HasKey(unit.lower, k) /\ SearchFromTable(unit.lower, k) = DeletedValue

WrittenFor(k) == {unit.out[e[1]][e[2]].val : e \in
    {<<i, j>> \in (1..Len(unit.out)) \X (1..maxSSTableSize) :
        j <= Len(unit.out[i]) /\ unit.out[i][j].key = k}}

C26_TombstoneInMerge ==
    (unit.op = "merge" /\ unit.done) =>
        \A k \in Keys : FreshestIsTombstone(k) =>
            WrittenFor(k) = IF unit.level < maxSSTableLevel THEN {DeletedValue} ELSE {}

\* C27: the flush of a frozen table writes every tombstone the table holds
\* into the new level-0 file, and from then on the search of the SSTables
\* does not answer an older value for such a key.
FlushDone ==
    /\ wr.pc = "flush"
    /\ sstIdGenerator' = sstIdGenerator + 1
    /\ Path(minSSTableLevel, sstIdGenerator') \in DOMAIN sstFiles'

TombstonesOf(imem) == {k \in DOMAIN imem.entries : imem.entries[k] = DeletedValue}

TombstonesWritten ==
    \A k \in TombstonesOf(wr.imem) :
        SearchFromTable(sstFiles'[Path(minSSTableLevel, sstIdGenerator')], k) = DeletedValue

TombstonesShadow ==
    \A k \in TombstonesOf(wr.imem) :
        SearchLevels(totalMap', sstFiles', minSSTableLevel, k).val \in {NilValue, DeletedValue}

C27_FlushWritesTombstones == [][FlushDone => TombstonesWritten /\ TombstonesShadow]_vars

\* C28: when the first SSTable in search order that holds a record of k
\* holds the tombstone of k, the search of the SSTables answers nil.
RECURSIVE SearchOrder(_, _)
SearchOrder(tm, level) ==
    IF level > maxSSTableLevel THEN <<>>
    ELSE getSortedFilesByLevel(tm, level) \o SearchOrder(tm, level + 1)

FirstHolding(k) ==
    LET files == SearchOrder(totalMap, minSSTableLevel)
        holding == {i \in 1..Len(files) : files[i] \in DOMAIN sstFiles /\ HasKey(sstFiles[files[i]], k)}
    IN IF holding = {} THEN <<>>
       ELSE sstFiles[files[CHOOSE i \in holding : \A j \in holding : i <= j]]

C28_TombstoneEndsSearch ==
    \A k \in Keys :
        (FirstHolding(k) # <<>> /\ SearchFromTable(FirstHolding(k), k) = DeletedValue)
            => SearchLevels(totalMap, sstFiles, minSSTableLevel, k) = [val |-> NilValue, err |-> FALSE]

\* C29: when files of level 0 hold records of k, the search of the SSTables
\* answers the record of the one with the largest id.
Level0Holding(k) ==
    {f \in DOMAIN sstFiles : PathLevel(f) = minSSTableLevel /\ HasKey(sstFiles[f], k)}

C29_Level0NewestFirst ==
    \A k \in Keys :
        Level0Holding(k) # {} =>
            LET f == CHOOSE f \in Level0Holding(k) : \A g \in Level0Holding(k) : g[2] <= f[2]
            IN SearchLevels(totalMap, sstFiles, minSSTableLevel, k).val = SearchFromTable(sstFiles[f], k)

\* C30: compactLevel of a level from 1 on that holds n files, n above its
\* capacity, takes as inputs the n - capacity files of the level with the
\* smallest ids.
OldestSurplus(level) ==
    LET all == SeqToSet(getFilesByLevel(totalMap, level))
        n == Cardinality(all)
    IN {f \in all : Cardinality({g \in all : g[2] < f[2]}) < n - maxFileNumsInLevel(level)}

SelectsOldestSurplus(t) ==
    (/\ cx[t].pc = "kselect"
     /\ cx'[t].pc = "kremove"
     /\ cx[t].lvl > minSSTableLevel
     /\ isLevelNeedToBeMerged(totalMap, cx[t].lvl))
        => SeqToSet(cx'[t].files) = OldestSurplus(cx[t].lvl)

C30_InputsAreOldestSurplus == [][\A t \in Threads : SelectsOldestSurplus(t)]_vars

\* C31: every table of the next level whose key range meets the key range
\* of the inputs is among the files mergeNextLevelFiles hands to the merge.
Intersects(recs, minK, maxK) == ~(MaxKeyOf(recs) < minK \/ MinKeyOf(recs) > maxK)

C31_IntersectingTablesMerged ==
    (unit.op = "overlap" /\ unit.done) =>
        \A i \in 1..Len(unit.next) :
            Intersects(unit.next[i], unit.minK, unit.maxK)
                => Path(unit.level, i) \in SeqToSet(unit.files)

WaiterBlocked ==
    \/ unit.waiter \in {"call", "test"} /\ ~CanRLock(unit)
    \/ unit.waiter = "asleep" /\ ~(unit.woken /\ CanRLock(unit))

CompactorBlocked == unit.compactor \in {"startLock", "endLock"} /\ unit.readers # 0

C33_NoDeadlock ==
    unit.op = "locks" =>
        ~(/\ WaiterBlocked \/ CompactorBlocked
          /\ WaiterBlocked \/ unit.waiter = "done"
          /\ CompactorBlocked \/ unit.compactor = "done")

\* C34: the active table and the frozen tables write to pairwise different
\* WAL files.
LiveWALs == <<Mem.wal>> \o [i \in 1..Len(IMems) |-> IMems[i].wal]

C34_OneWALPerTable ==
    \A i, j \in 1..Len(LiveWALs) :
        (i # j /\ LiveWALs[i] # NoWAL /\ LiveWALs[j] # NoWAL) => LiveWALs[i].id # LiveWALs[j].id

\* C35: a delete of k that returns without an error has appended the
\* tombstone of k to the WAL file of the table that is active when it
\* returns, whether or not the active table held k.
DeleteReturnsNil(k) ==
    /\ Delete(k)
    /\ ~ManagerDelete(Mem, IMems, walFiles, IDGen, k).err

TombstoneAppended(k) ==
    /\ Mem'.wal # NoWAL
    /\ Mem'.wal.id \in DOMAIN walFiles'
    /\ LET f == walFiles'[Mem'.wal.id] IN
       Len(f) > 0 /\ f[Len(f)] = Pair(k, DeletedValue)

C35_DeleteLogsTombstone == [][\A k \in Keys : DeleteReturnsNil(k) => TombstoneAppended(k)]_vars

C35_Witness ==
    \E k \in Keys :
        /\ acked[k] = DeletedValue
        /\ Mem.wal # NoWAL
        /\ Mem.wal.id \in DOMAIN walFiles
        /\ walFiles[Mem.wal.id] = <<Pair(k, DeletedValue)>>
        /\ k \in DOMAIN Mem.entries
        /\ Mem.entries[k] = DeletedValue

\* Recovery run a second time, by a process opened on the directory the
\* first recovery left.
RecoverAgain(m) == ManagerRecover(NewMemTable(1), <<>>, NewWAL(m.files, 1), 1)

TableContents(m) == <<m.mem.entries>> \o [i \in 1..Len(m.imems) |-> m.imems[i].entries]

C37_LevelsCovered ==
    \A level \in Levels :
        level > maxSSTableLevel =>
            /\ totalMap[level] = <<>>
            /\ \A f \in DOMAIN sstFiles : PathLevel(f) # level

\* No flush, no compaction and no recovery is under way, and the database
\* is open.
NoStepInProgress ==
    /\ wr.pc = "idle"
    /\ \A t \in Threads : cx[t].pc = "idle"
    /\ recovered # "failed"

RegisteredAt(level) == {totalMap[level][i].filePath : i \in 1..Len(totalMap[level])}

OnDiskAt(level) == {f \in (DOMAIN sstFiles) \cup partialFiles : PathLevel(f) = level}

\* C38: between the steps, failed ones included, the paths registered at a
\* level are the SST files of the directory of that level.
C38_RegistryMatchesDisk ==
    NoStepInProgress => \A level \in Levels : RegisteredAt(level) = OnDiskAt(level)

\* ------------------------------------------- one table and its filter
\* A table is built from the records of a frozen memtable and then asked
\* for a key.  The murmur digest of a key is four numbers the key fixes.
baseHashes(key) == <<key, key + 1, 2 * key + 1, 3 * key + 2>>

location(h, i) ==
    (h[(i % 2) + 1] + i * h[2 + (((i + (i % 2)) % 4) \div 2) + 1]) % defaultBloomFilterM

\* Filter.Add sets the bit of every one of the hashNum locations.
FilterAddFirstBit(bits, key) == bits \cup {location(baseHashes(key), 0)}

FilterAdd(bits, key) ==
    bits \cup {location(baseHashes(key), i) : i \in 0..(defaultBloomFilterK - 1)}

\* Filter.Test: every location of the key is set.
FilterTest(bits, key) ==
    \A i \in 0..(defaultBloomFilterK - 1) : location(baseHashes(key), i) \in bits

RECURSIVE FilterOfLoop(_, _, _)
FilterOfLoop(recs, i, bits) ==
    IF i > Len(recs) THEN bits ELSE FilterOfLoop(recs, i + 1, FilterAdd(bits, recs[i].key))

\* Builder.Add for every record, then Build: the header takes the first and
\* the last key of the index.
BuilderBuild(recs) ==
    [recs |-> recs, MinKey |-> MinKeyOf(recs), MaxKey |-> MaxKeyOf(recs),
     Filter |-> FilterOfLoop(recs, 1, {})]

\* SSTable.MayContain
TableMayContain(t, key) ==
    IF t.MinKey > key \/ t.MaxKey < key THEN FALSE ELSE FilterTest(t.Filter, key)

ProbeKeys == 0..(NumKeys + 1)

InitFilter ==
    /\ Open
    /\ sizeBase = levelSizeBase
    /\ \E K \in SUBSET Keys, key \in ProbeKeys :
           \E e \in [K -> {DeletedValue, 1, 2}] :
               unit = [op |-> "filter", entries |-> e, key |-> key, pc |-> "build",
                       table |-> BuilderBuild(<<>>), skipped |-> FALSE, val |-> NilValue]

BuildTable ==
    /\ unit.op = "filter"
    /\ unit.pc = "build"
    /\ unit' = [unit EXCEPT !.pc = "search",
                            !.table = BuilderBuild(BuildSSTableFromIMemtable(unit))]
    /\ UNCHANGED <<memv, diskv, mgrv, flagv, wr, cx, rd, acked, recovered,
                   nOps, nFaults, nCrashes, nGets, sizeBase>>

\* Manager.SearchFromTable on the table built
SearchTable ==
    /\ unit.op = "filter"
    /\ unit.pc = "search"
    /\ LET t == unit.table
           i == SeekIndex(t.recs, 1, unit.key)
       IN unit' = [unit EXCEPT !.pc = "done",
                      !.skipped = ~TableMayContain(t, unit.key),
                      !.val = IF ~TableMayContain(t, unit.key) THEN NilValue
                              ELSE IF i <= Len(t.recs) /\ t.recs[i].key = unit.key
                              THEN t.recs[i].val ELSE NilValue]
    /\ UNCHANGED <<memv, diskv, mgrv, flagv, wr, cx, rd, acked, recovered,
                   nOps, nFaults, nCrashes, nGets, sizeBase>>

SpecFilter == InitFilter /\ [][BuildTable \/ SearchTable]_vars

StoresKey(t, key) == \E j \in 1..Len(t.recs) : t.recs[j].key = key

InitSearch ==
    LET Lists == UNION {[K -> {DeletedValue, 1, 2}] : K \in SUBSET KeysKV}
        Table(e) == [NewMemTableWithoutWAL EXCEPT !.entries = e]
    IN /\ Open
       /\ sizeBase = levelSizeBase
       /\ \E n \in 0..MaxFrozen, key \in KeysKV, e \in Lists :
              \E f \in [1..n -> Lists] :
                  unit = [op |-> "search", mem |-> Table(e),
                          imems |-> [i \in 1..n |-> NewIMemTable(Table(f[i]))],
                          key |-> key, done |-> FALSE, val |-> NilValue]

SearchMemTables ==
    /\ unit.op = "search"
    /\ ~unit.done
    /\ unit' = [unit EXCEPT !.done = TRUE,
                            !.val = ManagerSearch(unit.mem, unit.imems, unit.key)]
    /\ UNCHANGED <<memv, diskv, mgrv, flagv, wr, cx, rd, acked, recovered,
                   nOps, nFaults, nCrashes, nGets, sizeBase>>

SpecSearch == InitSearch /\ [][SearchMemTables]_vars

\* the tables from the freshest to the oldest
NewestFirst == <<unit.mem>> \o [i \in 1..Len(unit.imems) |-> unit.imems[Len(unit.imems) + 1 - i]]

Holders == {i \in 1..Len(NewestFirst) : unit.key \in DOMAIN NewestFirst[i].entries}

FirstRecord ==
    LET i == CHOOSE h \in Holders : \A g \in Holders : h <= g
    IN NewestFirst[i].entries[unit.key]

\* C40: the search answers from the freshest table that holds a record of
\* the key, the active table before the frozen ones and these from the
\* newest to the oldest: the value of that record, nil when it is a
\* tombstone, whatever older tables hold; nil when no table holds one.
C40_FirstRecordAnswers ==
    (unit.op = "search" /\ unit.done) =>
        unit.val = IF Holders = {} THEN NilValue
                   ELSE IF FirstRecord = DeletedValue THEN NilValue
                   ELSE FirstRecord

\* the key is in two frozen tables with different values and not in the
\* active table; the answer is the value of the newer one
C40_Witness ==
    /\ unit.op = "search"
    /\ unit.done
    /\ Len(unit.imems) = 2
    /\ Holders = {2, 3}
    /\ unit.imems[1].entries[unit.key] = 1
    /\ unit.imems[2].entries[unit.key] = 2
    /\ unit.val = 2

====
